---------------------------- MODULE Spec2Model ----------------------------
(***************************************************************************)
(* A model of the AArch64 runtime of dynasm-rs (runtime/src/aarch64.rs):   *)
(* the Assembler, its relocation tables, the relocation encoder, the       *)
(* in-place AssemblyModifier and the commit / alter / finalize lifecycle   *)
(* over the lock-protected executable buffer.                              *)
(*                                                                         *)
(* Fixed-width machine words are modelled as sets of bit positions: a u32  *)
(* is a subset of 0..31 and a usize/u64 a subset of 0..63.  `&` is \cap,   *)
(* `|` is \cup, a shift moves the positions.  Buffers are sequences of     *)
(* bytes (0..255); LittleEndian::read_u32 / write_u32 convert between the  *)
(* two representations.                                                    *)
(***************************************************************************)
EXTENDS Integers, Sequences, FiniteSets, TLC

(***************************************************************************)
(* Bounds of the model.                                                    *)
(***************************************************************************)
\* the largest absolute offset (committed + staged bytes) the model emits
MaxOffset == 8
\* the initial capacity of the executable mapping, scaled down from the
\* 4096 bytes of MMAP_INIT_SIZE so that a commit can outgrow it
InitMapLen == 4
\* the most entries the pending relocation lists hold together
MaxRelocs == 2
\* the most dynamic labels minted by new_dynamic_label
MaxDynamic == 1
\* the most Executors (reader handles) alive at a time
MaxReaders == 2
\* the most modifier operations applied inside one alter
MaxModOps == 2
\* the bytes emitted in the scenario of the backward conditional branch
ScenarioLen == 16
\* the bytes emitted where deferred and immediate references are compared
DeferLen == 4
\* the bytes pushed and extended where the offset and the cursor are followed
MonoLen == 4

\* the byte values the caller pushes
ByteVals == {0}
\* the relocation tags the caller passes: B, LITERAL64 and an invalid one
RelocTags == {0, 6, 7}
LocalNames == {"a"}
GlobalNames == {"g"}
\* the alignments the caller asks for
Alignments == {4}
\* the byte sequences the caller extends the buffer with
Words == {<<0, 0, 0, 0>>, <<255, 255, 255, 255>>}
\* the absolute targets the caller passes to bare_reloc: before and behind
\* the sites
Targets == {0, 8}
\* the tags of the seven relocation kinds
KindTags == 0..6
\* the offsets the caller moves the modifier's cursor to
GotoOffsets == {0, 4}
\* the offsets the caller checks the modifier's cursor against
CheckOffsets == {0, 1, 4}
\* the tags outside 0..6 the caller passes
InvalidTags == {7, 255}
\* the alignments the caller asks the modifier for
ModAlignments == {4, 8}
\* the bytes of the words handed to encode_logical_immediate_32bit: runs
\* of 1s of several lengths and positions, and an alternating pattern
ImmBytes == {0, 255, 15, 240, 85, 102, 60}

(***************************************************************************)
(* Machine words as bit sets.                                              *)
(***************************************************************************)
\* bit i of the two's complement representation of the integer d
\* (|d| < 2^30, i < 64)
BitOf(d, i) == IF i <= 29 THEN (d \div (2^i)) % 2 ELSE IF d < 0 THEN 1 ELSE 0

\* the integer d as a w-bit two's complement word
Word(d, w) == {i \in 0..(w - 1) : BitOf(d, i) = 1}

\* the 32-bit literal whose upper and lower halves are hi and lo
U32(hi, lo) == Word(lo, 16) \cup {i + 16 : i \in Word(hi, 16)}

Shr(x, n) == {i - n : i \in {j \in x : j >= n}}
Shl32(x, n) == {i + n : i \in {j \in x : j + n <= 31}}
Not32(x) == (0..31) \ x

\* `t as u32`
AsU32(t) == t \cap (0..31)

\* usize::wrapping_sub of two offsets
wrapping_sub(a, b) == Word(a - b, 64)

\* byte k (0-based) of a word
ByteOfWord(x, k) ==
    LET b(i) == IF (8 * k + i) \in x THEN 2^i ELSE 0
    IN  b(0) + b(1) + b(2) + b(3) + b(4) + b(5) + b(6) + b(7)

\* LittleEndian::read_u32 of a 4-byte slice
read_u32(buf) == {j \in 0..31 : BitOf(buf[(j \div 8) + 1], j % 8) = 1}

\* LittleEndian::write_u32 / write_u64: the bytes of the word, low byte first
write_u32(x) == [k \in 1..4 |-> ByteOfWord(x, k - 1)]
write_u64(x) == [k \in 1..8 |-> ByteOfWord(x, k - 1)]

\* buf with the bytes at 0-based offsets [off, off + Len(bytes)) replaced
Splice(buf, off, bytes) ==
    [i \in 1..Len(buf) |->
        IF i > off /\ i <= off + Len(bytes) THEN bytes[i - off] ELSE buf[i]]

\* the slice buf[off .. off + n]
Slice(buf, off, n) == [i \in 1..n |-> buf[off + i]]

(***************************************************************************)
(* RelocationType.                                                         *)
(***************************************************************************)
RelocationType == {"B", "BCOND", "ADR", "ADRP", "TBZ", "LITERAL32", "LITERAL64"}

\* a faulty variant of from_tuple: an unsupported tag is taken for a B
from_tuple_lenient(tag) ==
    CASE tag = 0 -> "B"
      [] tag = 1 -> "BCOND"
      [] tag = 2 -> "ADR"
      [] tag = 3 -> "ADRP"
      [] tag = 4 -> "TBZ"
      [] tag = 5 -> "LITERAL32"
      [] tag = 6 -> "LITERAL64"
      [] OTHER -> "B"

\* RelocationType::from_tuple: the kind of a tag, "panic" for an unsupported one
from_tuple(tag) ==
    CASE tag = 0 -> "B"
      [] tag = 1 -> "BCOND"
      [] tag = 2 -> "ADR"
      [] tag = 3 -> "ADRP"
      [] tag = 4 -> "TBZ"
      [] tag = 5 -> "LITERAL32"
      [] tag = 6 -> "LITERAL64"
      [] OTHER -> "panic"

\* RelocationType::size
size(kind) == IF kind = "LITERAL64" THEN 8 ELSE 4

PatchLoc(end, kind) == [end |-> end, kind |-> kind]

(***************************************************************************)
(* The encoder.                                                            *)
(***************************************************************************)
\* a faulty variant of Mask: the mask of BCOND leaves out the condition
\* bits [4:0]
Mask_without_cond(kind) ==
    CASE kind = "B"     -> U32(64512, 0)
      [] kind = "BCOND" -> U32(65280, 0)
      [] kind = "ADR"   -> U32(40704, 31)
      [] kind = "ADRP"  -> U32(40704, 31)
      [] kind = "TBZ"   -> U32(65528, 31)

\* the mask of the bits of the instruction word a bitfield kind keeps
Mask(kind) ==
    CASE kind = "B"     -> U32(64512, 0)      \* 0xFC000000
      [] kind = "BCOND" -> U32(65280, 31)     \* 0xFF00001F
      [] kind = "ADR"   -> U32(40704, 31)     \* 0x9F00001F
      [] kind = "ADRP"  -> U32(40704, 31)     \* 0x9F00001F
      [] kind = "TBZ"   -> U32(65528, 31)     \* 0xFFF8001F

\* a faulty variant of Patch: the BCOND displacement is not divided by 4
Patch_bcond_in_bytes(kind, t) ==
    CASE kind = "B"     -> Shr(t, 2) \cap U32(1023, 65535)
      [] kind = "BCOND" -> Shl32(t \cap U32(7, 65535), 5)
      [] kind = "ADR"   -> Shl32(t \cap U32(0, 3), 29) \cup
                           Shl32(Shr(t, 2) \cap U32(7, 65535), 5)
      [] kind = "ADRP"  -> Shl32(Shr(t, 12) \cap U32(0, 3), 29) \cup
                           Shl32(Shr(t, 14) \cap U32(7, 65535), 5)
      [] kind = "TBZ"   -> Shl32(Shr(t, 2) \cap U32(0, 16383), 5)

\* the displacement t placed in the target field of a bitfield kind
Patch(kind, t) ==
    CASE kind = "B"     -> Shr(t, 2) \cap U32(1023, 65535)               \* 0x3FFFFFF
      [] kind = "BCOND" -> Shl32(Shr(t, 2) \cap U32(7, 65535), 5)        \* 0x7FFFF
      [] kind = "ADR"   -> Shl32(t \cap U32(0, 3), 29) \cup
                           Shl32(Shr(t, 2) \cap U32(7, 65535), 5)
      [] kind = "ADRP"  -> Shl32(Shr(t, 12) \cap U32(0, 3), 29) \cup
                           Shl32(Shr(t, 14) \cap U32(7, 65535), 5)
      [] kind = "TBZ"   -> Shl32(Shr(t, 2) \cap U32(0, 16383), 5)        \* 0x3FFF

Panicked == [ok |-> FALSE, buf |-> << >>]

\* a faulty variant of patch_loc: the displacement is taken from the end of the
\* site (loc.0) instead of its start
patch_loc_from_end(buf, asmoff, loc, target) ==
    LET sz == size(loc.kind)
        offset == loc.end - sz
        t == wrapping_sub(target, loc.end)
        rel == offset - asmoff
    IN  IF loc.end < sz \/ offset < asmoff \/ rel + sz > Len(buf)
        THEN Panicked
        ELSE IF loc.kind = "LITERAL32"
        THEN [ok |-> TRUE, buf |-> Splice(buf, rel, write_u32(AsU32(t)))]
        ELSE IF loc.kind = "LITERAL64"
        THEN [ok |-> TRUE, buf |-> Splice(buf, rel, write_u64(t))]
        ELSE LET base == read_u32(Slice(buf, rel, 4)) \cap Mask(loc.kind)
                 patch == Patch(loc.kind, AsU32(t))
             IN  [ok |-> TRUE, buf |-> Splice(buf, rel, write_u32(base \cup patch))]

\* Assembler::patch_loc on the staging buffer ops that starts at absolute
\* offset asmoff: the patched buffer, or a panic when a subtraction
\* underflows or the slice falls outside ops
patch_loc(buf, asmoff, loc, target) ==
    LET sz == size(loc.kind)
        offset == loc.end - sz
        t == wrapping_sub(target, offset)
        rel == offset - asmoff
    IN  IF loc.end < sz \/ offset < asmoff \/ rel + sz > Len(buf)
        THEN Panicked
        ELSE IF loc.kind = "LITERAL32"
        THEN [ok |-> TRUE, buf |-> Splice(buf, rel, write_u32(AsU32(t)))]
        ELSE IF loc.kind = "LITERAL64"
        THEN [ok |-> TRUE, buf |-> Splice(buf, rel, write_u64(t))]
        ELSE LET base == read_u32(Slice(buf, rel, 4)) \cap Mask(loc.kind)
                 patch == Patch(loc.kind, AsU32(t))
             IN  [ok |-> TRUE, buf |-> Splice(buf, rel, write_u32(base \cup patch))]

\* AssemblyModifier::patch_loc on the mutable view of the committed buffer
m_patch_loc(buf, loc, target) ==
    LET sz == size(loc.kind)
        offset == loc.end - sz
        t == wrapping_sub(target, loc.end)
    IN  IF loc.end < sz \/ offset + sz > Len(buf)
        THEN Panicked
        ELSE IF loc.kind = "LITERAL32"
        THEN [ok |-> TRUE, buf |-> Splice(buf, offset, write_u32(AsU32(t)))]
        ELSE IF loc.kind = "LITERAL64"
        THEN [ok |-> TRUE, buf |-> Splice(buf, offset, write_u64(t))]
        ELSE LET mask == Mask(loc.kind)
                 base == read_u32(Slice(buf, offset, 4)) \cap mask
                 patch == Patch(loc.kind, AsU32(t))
             IN  [ok |-> TRUE,
                  buf |-> Splice(buf, offset,
                                 write_u32(base \cup (patch \cap Not32(mask))))]

(***************************************************************************)
(* The logical immediate helper.                                           *)
(***************************************************************************)
\* the one value of a singleton set: Only({e(x) : x \in {v}}) is e(v) with
\* v computed once
Only(S) == CHOOSE x \in S : TRUE

rotate_right(x, n) == {(i + 32 - (n % 32)) % 32 : i \in x}
rotate_left(x, n) == {(i + n) % 32 : i \in x}
Xor(a, b) == (a \ b) \cup (b \ a)
count_ones(x) == Cardinality(x)
trailing_zeros(x) == IF x = {} THEN 32 ELSE CHOOSE i \in x : \A j \in x : i <= j

\* u32::wrapping_sub(1)
wrapping_dec(x) ==
    IF x = {} THEN 0..31
    ELSE (x \ {trailing_zeros(x)}) \cup (0..(trailing_zeros(x) - 1))

\* `x as u16` and the value of a u16
AsU16(x) == x \cap (0..15)
U16Value(x) == ByteOfWord(x, 0) + 256 * ByteOfWord(x, 1)

\* Option<u16>, and the panic of an arithmetic overflow
Some(n) == [tag |-> "Some", field |-> n]
None == [tag |-> "None", field |-> 0]
Overflow == [tag |-> "panic", field |-> 0]

\* encode_logical_immediate_32bit.  `checks` tells whether the build has
\* overflow checks: with them `1u32 << element_size` panics for an element
\* size of 32 and `ones - 1` panics for ones = 0; without them the shift
\* amount is taken modulo 32 and the subtraction wraps
encode_logical_immediate_32bit(value, checks) ==
    IF count_ones(Xor(value, rotate_right(value, 1))) = 0 THEN None
    ELSE Only({
        IF value # rotate_left(value, element_size) THEN None
        ELSE IF element_size >= 32 /\ checks THEN Overflow
        ELSE Only({
            IF checks /\ element = {} THEN Overflow
            ELSE Only({
                Some(U16Value(
                    {i + 6 : i \in {j \in AsU16(Word(immr, 32)) : j + 6 <= 15}}
                    \cup AsU16((Not32(Word(2 * element_size - 1, 32))
                                    \cap Word(63, 32))
                               \cup Word(count_ones(element) - 1, 32))))
                : immr \in {IF 0 \in element
                            THEN count_ones(element)
                                 - trailing_zeros(Not32(element))
                            ELSE element_size - trailing_zeros(element)}})
            : element \in {value \cap
                           wrapping_dec(Shl32({0}, element_size % 32))}})
        : element_size \in
            {64 \div count_ones(Xor(value, rotate_right(value, 1)))}})

\* what a call can return: the outcome of either build
Outcomes(value) ==
    {encode_logical_immediate_32bit(value, checks) : checks \in BOOLEAN}

(***************************************************************************)
(* The state.                                                              *)
(***************************************************************************)
VARIABLES
    ops,             \* base.ops: the staging buffer
    asmoffset,       \* base.asmoffset: the absolute offset at which ops starts
    execbuf,         \* the bytes of the committed region
    map_len,         \* the capacity of the mapping behind the committed region
    writable,        \* the committed region is mapped writable
    executable,      \* the committed region is mapped executable
    global_labels,   \* labels: global name -> offset
    local_labels,    \* labels: local name -> offset of its last definition
    dynamic_labels,  \* labels: dynamic id -> offset, NoOffset while undefined
    global_relocs,   \* Assembler.global_relocs
    dynamic_relocs,  \* Assembler.dynamic_relocs
    local_relocs,    \* Assembler.local_relocs: name -> pending PatchLocs
    pc,              \* where the assembling thread is
    call,            \* the public method the assembling thread is inside
    m_asmoffset,     \* AssemblyModifier.asmoffset: the modifier's cursor
    m_hist,          \* history: the operations applied through the modifier
    executors,       \* the Executors alive (clones of the buffer's handle)
    rlocks,          \* the read locks held on the committed region
    wlock,           \* the write lock on the committed region is held
    patchlog,        \* history: the patch_loc calls of the last operation
    g_fwd,           \* history: forward references since the last definition
    g_lastdef,       \* history: offset of the last local_label call per name
    refs,            \* history: the resolved local references not overwritten
    snap,            \* history: the state when the last commit, alter or
                     \* finalize began, kept until the next operation
    imm_value,       \* the word handed to encode_logical_immediate_32bit
    imm_result       \* what the helper returned for it

bufvars == <<execbuf, map_len, writable, executable>>
stagevars == <<ops, asmoffset>>
labvars == <<global_labels, local_labels, dynamic_labels>>
relvars == <<global_relocs, dynamic_relocs, local_relocs>>
lockvars == <<executors, rlocks, wlock>>
modvars == <<m_asmoffset, m_hist>>
histvars == <<g_fwd, g_lastdef, refs>>
immvars == <<imm_value, imm_result>>
asmvars == <<stagevars, bufvars, labvars, relvars, lockvars, modvars,
             histvars, pc, call, patchlog, snap>>
vars == <<ops, asmoffset, execbuf, map_len, writable, executable,
          global_labels, local_labels, dynamic_labels,
          global_relocs, dynamic_relocs, local_relocs, pc, call,
          m_asmoffset, m_hist, executors, rlocks, wlock,
          patchlog, g_fwd, g_lastdef, refs, snap, imm_value, imm_result>>

NoOffset == -1
\* the helper has not been called
NotCalled == [tag |-> "not called", field |-> 0]
EmptyMap == [x \in {} |-> 0]
NoSnap == [method |-> "none", execbuf |-> << >>, ops |-> << >>, offset |-> 0,
           globals |-> << >>, dynamics |-> << >>, locals |-> EmptyMap,
           labels |-> << >>, staged |-> << >>, altered |-> << >>]

\* a faulty variant of offset: the staged bytes are not counted
offset_without_staged == asmoffset

\* Assembler::offset: asmoffset + len(ops)
Offset == asmoffset + Len(ops)

\* the entries pending on the three lists
RECURSIVE SumLen(_, _)
SumLen(f, S) ==
    IF S = {} THEN 0
    ELSE LET x == CHOOSE y \in S : TRUE IN Len(f[x]) + SumLen(f, S \ {x})
Pending == Len(global_relocs) + Len(dynamic_relocs)
           + SumLen(local_relocs, DOMAIN local_relocs)

\* Assembler::new
new ==
    /\ ops = << >> /\ asmoffset = 0
    /\ execbuf = << >> /\ map_len = InitMapLen
    /\ writable = FALSE /\ executable = TRUE
    /\ global_labels = EmptyMap /\ local_labels = EmptyMap
    /\ dynamic_labels = << >>
    /\ global_relocs = << >> /\ dynamic_relocs = << >>
    /\ local_relocs = EmptyMap
    /\ pc = "idle" /\ call = "none"
    /\ m_asmoffset = 0 /\ m_hist = << >>
    /\ executors = 0 /\ rlocks = 0 /\ wlock = FALSE
    /\ patchlog = << >> /\ g_fwd = EmptyMap /\ g_lastdef = EmptyMap
    /\ refs = {} /\ snap = NoSnap

\* a new Assembler, and no call of the helper yet
Init == new /\ imm_value = {} /\ imm_result = NotCalled

(***************************************************************************)
(* The label registry.                                                     *)
(***************************************************************************)
Put(f, k, v) == [x \in DOMAIN f \cup {k} |-> IF x = k THEN v ELSE f[x]]
Drop(f, k) == [x \in DOMAIN f \ {k} |-> f[x]]

\* resolve_global / resolve_local / resolve_dynamic: NoOffset for an
\* unknown or undefined label, on which the callers' unwrap panics
resolve_global(name) ==
    IF name \in DOMAIN global_labels THEN global_labels[name] ELSE NoOffset
resolve_local(name) ==
    IF name \in DOMAIN local_labels THEN local_labels[name] ELSE NoOffset
resolve_dynamic(id) ==
    IF id \in DOMAIN dynamic_labels THEN dynamic_labels[id] ELSE NoOffset

(***************************************************************************)
(* Patching a list of locations.                                           *)
(***************************************************************************)
\* one step of the loop: the target is unwrapped (a panic for a label
\* without offset) and the location patched, on the staging buffer or
\* (inplace) on the mutable view of the committed buffer
PatchOne(buf, asmoff, h, inplace) ==
    IF h.target = NoOffset THEN Panicked
    ELSE IF inplace THEN m_patch_loc(buf, h.loc, h.target)
    ELSE patch_loc(buf, asmoff, h.loc, h.target)

\* a faulty variant of PatchAll: an entry whose label has no definition is skipped
RECURSIVE PatchAllSkippingUnknown(_, _, _, _)
PatchAllSkippingUnknown(buf, asmoff, todo, inplace) ==
    IF todo = << >> THEN [ok |-> TRUE, buf |-> buf, done |-> 0]
    ELSE Only({IF ~r.ok THEN [ok |-> FALSE, buf |-> buf, done |-> 0]
               ELSE Only({[ok |-> rest.ok, buf |-> rest.buf, done |-> rest.done + 1] :
                          rest \in {PatchAllSkippingUnknown(r.buf, asmoff, Tail(todo),
                                                            inplace)}}) :
               r \in {IF Head(todo).target = NoOffset THEN [ok |-> TRUE, buf |-> buf]
                      ELSE PatchOne(buf, asmoff, Head(todo), inplace)}})

\* the loop `for loc in relocs { patch_loc(loc, target) }` over a list of
\* [loc, target], on the staging buffer or (inplace) on the mutable view
\* of the committed buffer: the buffer, whether every step returned, and
\* how many patches were made before the first panic
RECURSIVE PatchAll(_, _, _, _)
PatchAll(buf, asmoff, todo, inplace) ==
    IF todo = << >> THEN [ok |-> TRUE, buf |-> buf, done |-> 0]
    ELSE Only({IF ~r.ok THEN [ok |-> FALSE, buf |-> buf, done |-> 0]
               ELSE Only({[ok |-> rest.ok, buf |-> rest.buf, done |-> rest.done + 1] :
                          rest \in {PatchAll(r.buf, asmoff, Tail(todo), inplace)}}) :
               r \in {PatchOne(buf, asmoff, Head(todo), inplace)}})

Todo(locs, target) == [i \in 1..Len(locs) |-> [loc |-> locs[i], target |-> target]]

\* history: the references whose site [end - size, end) no write to
\* [lo, hi) has touched
Clobber(rs, lo, hi) == {r \in rs : r.end <= lo \/ r.end - size(r.kind) >= hi}
RECURSIVE ClobberAll(_, _)
ClobberAll(rs, done) ==
    IF done = << >> THEN rs
    ELSE LET l == Head(done).loc
         IN  ClobberAll(Clobber(rs, l.end - size(l.kind), l.end), Tail(done))
\* history: the references a list of patches resolves, in order
RECURSIVE Resolve(_, _)
Resolve(rs, done) ==
    IF done = << >> THEN rs
    ELSE LET h == Head(done)
             l == h.loc
         IN  Resolve(Clobber(rs, l.end - size(l.kind), l.end)
                       \cup {[end |-> l.end, kind |-> l.kind, target |-> h.target]},
                     Tail(done))

(***************************************************************************)
(* DynasmApi for Assembler: emission into the staging buffer.              *)
(***************************************************************************)
\* what an operation of the idle assembler leaves alone unless it says so
IdleFrame ==
    /\ pc = "idle"
    /\ snap' = NoSnap
    /\ m_hist' = << >>
    /\ UNCHANGED <<asmoffset, bufvars, lockvars, m_asmoffset, call, immvars>>

Done(ok) == pc' = IF ok THEN "idle" ELSE "panicked"

\* Assembler::push
push(value) ==
    /\ IdleFrame
    /\ ops' = Append(ops, value)
    /\ patchlog' = << >>
    /\ UNCHANGED <<pc, labvars, relvars, histvars>>

\* Extend<u8> for Assembler
extend(iter) ==
    /\ IdleFrame
    /\ ops' = ops \o iter
    /\ patchlog' = << >>
    /\ UNCHANGED <<pc, labvars, relvars, histvars>>

\* base.align(alignment, with): pad with `with` up to a multiple of alignment
Padding(alignment, with) ==
    LET rem == Offset % alignment
    IN  [i \in 1..(IF rem = 0 THEN 0 ELSE alignment - rem) |-> with]

\* Assembler::align
align(alignment) ==
    /\ IdleFrame
    /\ ops' = ops \o Padding(alignment, 204)
    /\ patchlog' = << >>
    /\ UNCHANGED <<pc, labvars, relvars, histvars>>

(***************************************************************************)
(* DynasmLabelApi for Assembler.                                           *)
(***************************************************************************)
\* a faulty variant of local_label: the pending list of name is read, not removed
local_label_keeps_list(name) ==
    \E offset \in {Offset} :
    \E todo \in {Todo(IF name \in DOMAIN local_relocs THEN local_relocs[name]
                      ELSE << >>, offset)} :
    \E r \in {PatchAll(ops, asmoffset, todo, FALSE)} :
    \E done \in {SubSeq(todo, 1, r.done)} :
    \E expect \in {IF name \in DOMAIN g_fwd THEN Todo(g_fwd[name], offset)
                   ELSE << >>} :
        /\ IdleFrame
        /\ local_relocs' = local_relocs
        /\ ops' = r.buf
        /\ patchlog' = done
        /\ local_labels' = IF r.ok THEN Put(local_labels, name, offset) ELSE local_labels
        /\ Done(r.ok)
        /\ g_fwd' = Drop(g_fwd, name)
        /\ g_lastdef' = Put(g_lastdef, name, offset)
        /\ refs' = IF r.ok THEN Resolve(ClobberAll(refs, done), expect)
                   ELSE ClobberAll(refs, done)
        /\ UNCHANGED <<global_labels, dynamic_labels, global_relocs, dynamic_relocs>>

\* Assembler::local_label
local_label(name) ==
    \E offset \in {Offset} :
    \E todo \in {Todo(IF name \in DOMAIN local_relocs THEN local_relocs[name]
                      ELSE << >>, offset)} :
    \E r \in {PatchAll(ops, asmoffset, todo, FALSE)} :
    \E done \in {SubSeq(todo, 1, r.done)} :
    \E expect \in {IF name \in DOMAIN g_fwd THEN Todo(g_fwd[name], offset)
                   ELSE << >>} :
        /\ IdleFrame
        /\ local_relocs' = Drop(local_relocs, name)
        /\ ops' = r.buf
        /\ patchlog' = done
        /\ local_labels' = IF r.ok THEN Put(local_labels, name, offset) ELSE local_labels
        /\ Done(r.ok)
        /\ g_fwd' = Drop(g_fwd, name)
        /\ g_lastdef' = Put(g_lastdef, name, offset)
        /\ refs' = IF r.ok THEN Resolve(ClobberAll(refs, done), expect)
                   ELSE ClobberAll(refs, done)
        /\ UNCHANGED <<global_labels, dynamic_labels, global_relocs, dynamic_relocs>>

\* DynasmLabelApi::global_label: define_global at the current offset; a
\* second definition of the name is an error at the call
global_label(name) ==
    /\ IdleFrame
    /\ global_labels' = IF name \in DOMAIN global_labels THEN global_labels
                        ELSE Put(global_labels, name, Offset)
    /\ Done(name \notin DOMAIN global_labels)
    /\ patchlog' = << >>
    /\ UNCHANGED <<ops, local_labels, dynamic_labels, relvars, histvars>>

\* Assembler::new_dynamic_label
new_dynamic_label ==
    /\ IdleFrame
    /\ Len(dynamic_labels) < MaxDynamic
    /\ dynamic_labels' = Append(dynamic_labels, NoOffset)
    /\ patchlog' = << >>
    /\ UNCHANGED <<pc, ops, global_labels, local_labels, relvars, histvars>>

\* DynasmLabelApi::dynamic_label: define_dynamic at the current offset
dynamic_label(id) ==
    /\ IdleFrame
    /\ id \in DOMAIN dynamic_labels
    /\ dynamic_labels' = IF dynamic_labels[id] # NoOffset THEN dynamic_labels
                         ELSE [dynamic_labels EXCEPT ![id] = Offset]
    /\ Done(dynamic_labels[id] = NoOffset)
    /\ patchlog' = << >>
    /\ UNCHANGED <<ops, global_labels, local_labels, relvars, histvars>>

\* a faulty variant of global_reloc: a reference to a label that is defined
\* already is patched at once instead of being recorded
global_reloc_patches_defined(name, tag) ==
    \E kind \in {from_tuple(tag)} :
    \E todo \in {IF kind = "panic" \/ name \notin DOMAIN global_labels THEN << >>
                 ELSE <<[loc |-> PatchLoc(Offset, kind),
                         target |-> global_labels[name]]>>} :
    \E r \in {PatchAll(ops, asmoffset, todo, FALSE)} :
        /\ IdleFrame
        /\ Pending < MaxRelocs
        /\ global_relocs' =
               IF kind = "panic" \/ name \in DOMAIN global_labels THEN global_relocs
               ELSE Append(global_relocs, [loc |-> PatchLoc(Offset, kind), name |-> name])
        /\ ops' = r.buf
        /\ Done(kind # "panic" /\ r.ok)
        /\ patchlog' = SubSeq(todo, 1, r.done)
        /\ UNCHANGED <<labvars, dynamic_relocs, local_relocs, histvars>>

\* Assembler::global_reloc
global_reloc(name, tag) ==
    LET kind == from_tuple(tag)
    IN  /\ IdleFrame
        /\ Pending < MaxRelocs
        /\ global_relocs' =
               IF kind = "panic" THEN global_relocs
               ELSE Append(global_relocs, [loc |-> PatchLoc(Offset, kind), name |-> name])
        /\ Done(kind # "panic")
        /\ patchlog' = << >>
        /\ UNCHANGED <<ops, labvars, dynamic_relocs, local_relocs, histvars>>

\* Assembler::dynamic_reloc
dynamic_reloc(id, tag) ==
    LET kind == from_tuple(tag)
    IN  /\ IdleFrame
        /\ Pending < MaxRelocs
        /\ id \in DOMAIN dynamic_labels
        /\ dynamic_relocs' =
               IF kind = "panic" THEN dynamic_relocs
               ELSE Append(dynamic_relocs, [loc |-> PatchLoc(Offset, kind), id |-> id])
        /\ Done(kind # "panic")
        /\ patchlog' = << >>
        /\ UNCHANGED <<ops, labvars, global_relocs, local_relocs, histvars>>

\* the entry(name) match of forward_reloc: push on the list of name, or
\* insert a list of one
PushLocal(relocs, name, loc) ==
    IF name \in DOMAIN relocs THEN [relocs EXCEPT ![name] = Append(@, loc)]
    ELSE Put(relocs, name, <<loc>>)

\* Assembler::forward_reloc
forward_reloc(name, tag) ==
    LET kind == from_tuple(tag)
    IN  /\ IdleFrame
        /\ Pending < MaxRelocs
        /\ local_relocs' =
               IF kind = "panic" THEN local_relocs
               ELSE PushLocal(local_relocs, name, PatchLoc(Offset, kind))
        /\ g_fwd' = IF kind = "panic" THEN g_fwd
                    ELSE PushLocal(g_fwd, name, PatchLoc(Offset, kind))
        /\ Done(kind # "panic")
        /\ patchlog' = << >>
        /\ UNCHANGED <<ops, labvars, global_relocs, dynamic_relocs, g_lastdef, refs>>

\* Assembler::backward_reloc
backward_reloc(name, tag) ==
    \E target \in {resolve_local(name)} :
    \E kind \in {from_tuple(tag)} :
    \E todo \in {IF target = NoOffset \/ kind = "panic" THEN << >>
                 ELSE <<[loc |-> PatchLoc(Offset, kind), target |-> target]>>} :
    \E r \in {PatchAll(ops, asmoffset, todo, FALSE)} :
    \E done \in {SubSeq(todo, 1, r.done)} :
    \E ok \in {target # NoOffset /\ kind # "panic" /\ r.ok} :
        /\ IdleFrame
        /\ ops' = r.buf
        /\ patchlog' = done
        /\ Done(ok)
        /\ refs' = IF ok
                   THEN Resolve(ClobberAll(refs, done),
                                <<[loc |-> PatchLoc(Offset, kind),
                                   target |-> g_lastdef[name]]>>)
                   ELSE ClobberAll(refs, done)
        /\ UNCHANGED <<labvars, relvars, g_fwd, g_lastdef>>

\* Assembler::bare_reloc
bare_reloc(target, tag) ==
    \E kind \in {from_tuple(tag)} :
    \E todo \in {IF kind = "panic" THEN << >>
                 ELSE <<[loc |-> PatchLoc(Offset, kind), target |-> target]>>} :
    \E r \in {PatchAll(ops, asmoffset, todo, FALSE)} :
    \E done \in {SubSeq(todo, 1, r.done)} :
        /\ IdleFrame
        /\ ops' = r.buf
        /\ patchlog' = done
        /\ Done(kind # "panic" /\ r.ok)
        /\ refs' = ClobberAll(refs, done)
        /\ UNCHANGED <<labvars, relvars, g_fwd, g_lastdef>>

(***************************************************************************)
(* commit, finalize and reader.                                            *)
(***************************************************************************)
GlobalTodo(relocs) ==
    [i \in 1..Len(relocs) |->
        [loc |-> relocs[i].loc, target |-> resolve_global(relocs[i].name)]]
DynamicTodo(relocs) ==
    [i \in 1..Len(relocs) |->
        [loc |-> relocs[i].loc, target |-> resolve_dynamic(relocs[i].id)]]

\* a faulty variant of encode_relocs: the dynamic list is swapped out but its
\* entries are not patched
encode_relocs_skips_dynamic(buf, inplace) ==
    Only({IF ~g.ok
          THEN [ok |-> FALSE, buf |-> g.buf,
                log |-> SubSeq(GlobalTodo(global_relocs), 1, g.done),
                dynamic_relocs |-> dynamic_relocs]
          ELSE [ok |-> DOMAIN local_relocs = {}, buf |-> g.buf,
                log |-> GlobalTodo(global_relocs), dynamic_relocs |-> << >>] :
          g \in {PatchAll(buf, asmoffset, GlobalTodo(global_relocs), inplace)}})

\* a faulty variant of encode_relocs: a pending local reference left over is not
\* looked for
encode_relocs_ignores_locals(buf, inplace) ==
    Only({IF ~g.ok
          THEN [ok |-> FALSE, buf |-> g.buf,
                log |-> SubSeq(GlobalTodo(global_relocs), 1, g.done),
                dynamic_relocs |-> dynamic_relocs]
          ELSE Only({[ok |-> d.ok, buf |-> d.buf,
                      log |-> GlobalTodo(global_relocs)
                              \o SubSeq(DynamicTodo(dynamic_relocs), 1, d.done),
                      dynamic_relocs |-> << >>] :
                     d \in {PatchAll(g.buf, asmoffset, DynamicTodo(dynamic_relocs),
                                     inplace)}}) :
          g \in {PatchAll(buf, asmoffset, GlobalTodo(global_relocs), inplace)}})

\* Assembler::encode_relocs (and, inplace, AssemblyModifier::encode_relocs)
\* on buf: each list is swapped out and its entries are patched in order;
\* a pending local reference left over is a panic
encode_relocs(buf, inplace) ==
    Only({IF ~g.ok
          THEN [ok |-> FALSE, buf |-> g.buf,
                log |-> SubSeq(GlobalTodo(global_relocs), 1, g.done),
                dynamic_relocs |-> dynamic_relocs]
          ELSE Only({[ok |-> d.ok /\ DOMAIN local_relocs = {}, buf |-> d.buf,
                      log |-> GlobalTodo(global_relocs)
                              \o SubSeq(DynamicTodo(dynamic_relocs), 1, d.done),
                      dynamic_relocs |-> << >>] :
                     d \in {PatchAll(g.buf, asmoffset, DynamicTodo(dynamic_relocs),
                                     inplace)}}) :
          g \in {PatchAll(buf, asmoffset, GlobalTodo(global_relocs), inplace)}})

\* the first half of Assembler::commit, for the method `method` that runs
\* it: self.encode_relocs() on the staging buffer
BeginCommit(method) ==
    \E e \in {encode_relocs(ops, FALSE)} :
        /\ pc = "idle"
        /\ UNCHANGED immvars
        /\ ops' = e.buf
        /\ global_relocs' = << >>
        /\ dynamic_relocs' = e.dynamic_relocs
        /\ patchlog' = e.log
        /\ refs' = ClobberAll(refs, e.log)
        /\ call' = method
        /\ snap' = [method |-> method, execbuf |-> execbuf, ops |-> ops,
                    offset |-> Offset, globals |-> global_relocs,
                    dynamics |-> dynamic_relocs, locals |-> local_relocs,
                    labels |-> labvars, staged |-> << >>, altered |-> << >>]
        /\ m_hist' = << >>
        /\ pc' = IF e.ok THEN "commit_lock" ELSE "panicked"
        /\ UNCHANGED <<asmoffset, bufvars, labvars, local_relocs, lockvars,
                       m_asmoffset, g_fwd, g_lastdef>>

\* Assembler::commit
commit == BeginCommit("commit")

\* a faulty variant of finalize: base.finalize is tried without the commit
finalize_without_commit ==
    /\ pc = "idle"
    /\ UNCHANGED immvars
    /\ call' = "finalize"
    /\ snap' = [method |-> "finalize", execbuf |-> execbuf, ops |-> ops,
                offset |-> Offset, globals |-> global_relocs,
                dynamics |-> dynamic_relocs, locals |-> local_relocs,
                labels |-> labvars, staged |-> << >>, altered |-> << >>]
    /\ m_hist' = << >>
    /\ patchlog' = << >>
    /\ pc' = "finalize_try"
    /\ UNCHANGED <<stagevars, bufvars, labvars, relvars, lockvars,
                   m_asmoffset, histvars>>

\* Assembler::finalize, which commits first
finalize == BeginCommit("finalize")

\* Assembler::alter, which commits first
alter == BeginCommit("alter")

\* base.commit: take the exclusive lock on the executable region and remap
\* the region writable
base_commit_lock ==
    /\ pc = "commit_lock"
    /\ UNCHANGED immvars
    /\ ~wlock /\ rlocks = 0
    /\ wlock' = TRUE
    /\ writable' = TRUE /\ executable' = FALSE
    /\ pc' = "commit_write"
    /\ UNCHANGED <<stagevars, execbuf, map_len, labvars, relvars, call, modvars,
                   executors, rlocks, patchlog, histvars, snap>>

\* the capacity after appending n bytes: at least doubled on overflow
Grown(cap, n) == IF n <= cap THEN cap ELSE IF n > 2 * cap THEN n ELSE 2 * cap

\* the committed bytes after appending the staged ones, in place or, when
\* the mapping is outgrown, copied into a new mapping
Promote(old, staged) ==
    [i \in 1..(Len(old) + Len(staged)) |->
        IF i <= Len(old) THEN old[i] ELSE staged[i - Len(old)]]

\* where a method goes on once its commit is done
AfterCommit(method) ==
    CASE method = "commit" -> "idle"
      [] method = "alter" -> "alter_lock"
      [] method = "finalize" -> "finalize_try"

\* base.commit: append the staged bytes, remap executable, release the
\* lock, advance asmoffset and clear the staging buffer
\* a faulty variant of base_commit_write: the staged bytes are promoted
\* without advancing asmoffset
base_commit_write_keeps_asmoffset ==
    /\ pc = "commit_write"
    /\ UNCHANGED immvars
    /\ execbuf' = Promote(execbuf, ops)
    /\ map_len' = Grown(map_len, Len(execbuf) + Len(ops))
    /\ writable' = FALSE /\ executable' = TRUE
    /\ wlock' = FALSE
    /\ asmoffset' = asmoffset
    /\ ops' = << >>
    /\ pc' = AfterCommit(call)
    /\ call' = IF call = "commit" THEN "none" ELSE call
    /\ snap' = [snap EXCEPT !.staged = ops]
    /\ UNCHANGED <<labvars, relvars, modvars, executors, rlocks, patchlog, histvars>>

base_commit_write ==
    /\ pc = "commit_write"
    /\ UNCHANGED immvars
    /\ execbuf' = Promote(execbuf, ops)
    /\ map_len' = Grown(map_len, Len(execbuf) + Len(ops))
    /\ writable' = FALSE /\ executable' = TRUE
    /\ wlock' = FALSE
    /\ asmoffset' = asmoffset + Len(ops)
    /\ ops' = << >>
    /\ pc' = AfterCommit(call)
    /\ call' = IF call = "commit" THEN "none" ELSE call
    /\ snap' = [snap EXCEPT !.staged = ops]
    /\ UNCHANGED <<labvars, relvars, modvars, executors, rlocks, patchlog, histvars>>

\* base.finalize at the end of Assembler::finalize: the buffer is handed
\* over when no Executor shares it, else the assembler is returned
base_finalize ==
    /\ pc = "finalize_try"
    /\ UNCHANGED immvars
    /\ pc' = IF executors = 0 THEN "finalized" ELSE "idle"
    /\ call' = "none"
    /\ UNCHANGED <<stagevars, bufvars, labvars, relvars, modvars, lockvars,
                   patchlog, histvars, snap>>

\* Assembler::reader: one more Executor sharing the committed region
reader ==
    /\ pc = "idle"
    /\ UNCHANGED immvars
    /\ executors < MaxReaders
    /\ executors' = executors + 1
    /\ UNCHANGED <<stagevars, bufvars, labvars, relvars, pc, call, modvars,
                   rlocks, wlock, patchlog, histvars, snap>>

\* an Executor takes its read lock
executor_lock ==
    /\ ~wlock
    /\ UNCHANGED immvars
    /\ rlocks < executors
    /\ rlocks' = rlocks + 1
    /\ UNCHANGED <<stagevars, bufvars, labvars, relvars, pc, call, modvars,
                   executors, wlock, patchlog, histvars, snap>>

\* an Executor releases its read lock
executor_unlock ==
    /\ rlocks > 0
    /\ UNCHANGED immvars
    /\ rlocks' = rlocks - 1
    /\ UNCHANGED <<stagevars, bufvars, labvars, relvars, pc, call, modvars,
                   executors, wlock, patchlog, histvars, snap>>

\* an Executor that holds no lock is dropped
executor_drop ==
    /\ executors > rlocks
    /\ UNCHANGED immvars
    /\ executors' = executors - 1
    /\ UNCHANGED <<stagevars, bufvars, labvars, relvars, pc, call, modvars,
                   rlocks, wlock, patchlog, histvars, snap>>

(***************************************************************************)
(* alter and the AssemblyModifier.                                         *)
(***************************************************************************)
\* a faulty variant of alter_lock: the buffer is taken while read locks are held
alter_lock_ignores_readers ==
    /\ pc = "alter_lock"
    /\ UNCHANGED immvars
    /\ ~wlock
    /\ wlock' = TRUE
    /\ writable' = TRUE /\ executable' = FALSE
    /\ m_asmoffset' = 0 /\ m_hist' = << >>
    /\ snap' = [snap EXCEPT !.altered = execbuf]
    /\ pc' = "alter_f"
    /\ UNCHANGED <<stagevars, execbuf, map_len, labvars, relvars, call,
                   executors, rlocks, patchlog, histvars>>

\* Assembler::alter once its commit is done: take the write lock, move the
\* buffer out and make it mutable, and hand a modifier with cursor 0 to f
alter_lock ==
    /\ pc = "alter_lock"
    /\ UNCHANGED immvars
    /\ ~wlock /\ rlocks = 0
    /\ wlock' = TRUE
    /\ writable' = TRUE /\ executable' = FALSE
    /\ m_asmoffset' = 0 /\ m_hist' = << >>
    /\ snap' = [snap EXCEPT !.altered = execbuf]
    /\ pc' = "alter_f"
    /\ UNCHANGED <<stagevars, execbuf, map_len, labvars, relvars, call,
                   executors, rlocks, patchlog, histvars>>

\* what an operation of the modifier leaves alone unless it says so
ModFrame ==
    /\ pc = "alter_f"
    /\ Len(m_hist) < MaxModOps
    /\ UNCHANGED <<stagevars, call, executors, rlocks, snap, immvars>>

\* the recovery of take_or_recover when f or the close panics: the lock
\* gets an empty ExecutableBuffer of MMAP_INIT_SIZE and the panic goes on
Recovered(ok, buf) ==
    /\ execbuf' = IF ok THEN buf ELSE << >>
    /\ map_len' = IF ok THEN map_len ELSE InitMapLen
    /\ writable' = ok
    /\ executable' = ~ok
    /\ wlock' = ok
    /\ pc' = IF ok THEN "alter_f" ELSE "panicked"

Hist(op, arg) == [op |-> op, arg |-> arg]

\* AssemblyModifier::goto
m_goto(offset) ==
    /\ ModFrame
    /\ m_asmoffset' = offset
    /\ m_hist' = Append(m_hist, Hist("goto", <<offset>>))
    /\ patchlog' = << >>
    /\ UNCHANGED <<bufvars, wlock, pc, labvars, relvars, histvars>>

\* the Result of check and check_exact, as the history records it
CheckResult(op, failed) == IF failed THEN op \o ": CheckFailed" ELSE op \o ": Ok"

\* a faulty variant of m_check: a cursor at the offset fails too
m_check_strict(offset) ==
    /\ ModFrame
    /\ m_hist' = Append(m_hist, Hist(CheckResult("check", m_asmoffset >= offset),
                                     <<offset>>))
    /\ patchlog' = << >>
    /\ UNCHANGED <<m_asmoffset, bufvars, wlock, pc, labvars, relvars, histvars>>

\* AssemblyModifier::check
m_check(offset) ==
    /\ ModFrame
    /\ m_hist' = Append(m_hist, Hist(CheckResult("check", m_asmoffset > offset),
                                     <<offset>>))
    /\ patchlog' = << >>
    /\ UNCHANGED <<m_asmoffset, bufvars, wlock, pc, labvars, relvars, histvars>>

\* AssemblyModifier::check_exact
m_check_exact(offset) ==
    /\ ModFrame
    /\ m_hist' = Append(m_hist, Hist(CheckResult("check_exact", m_asmoffset # offset),
                                     <<offset>>))
    /\ patchlog' = << >>
    /\ UNCHANGED <<m_asmoffset, bufvars, wlock, pc, labvars, relvars, histvars>>

\* a faulty variant of PushAll: push does not advance the cursor
RECURSIVE PushAllInPlace(_, _, _)
PushAllInPlace(buf, cursor, iter) ==
    IF iter = << >> THEN [ok |-> TRUE, buf |-> buf, cursor |-> cursor]
    ELSE IF cursor >= Len(buf) THEN [ok |-> FALSE, buf |-> buf, cursor |-> cursor]
    ELSE PushAllInPlace([buf EXCEPT ![cursor + 1] = Head(iter)], cursor, Tail(iter))

\* the pushes of iter at the cursor: each writes buffer[asmoffset] and
\* advances the cursor; a write past the end of the buffer panics
RECURSIVE PushAll(_, _, _)
PushAll(buf, cursor, iter) ==
    IF iter = << >> THEN [ok |-> TRUE, buf |-> buf, cursor |-> cursor]
    ELSE IF cursor >= Len(buf) THEN [ok |-> FALSE, buf |-> buf, cursor |-> cursor]
    ELSE PushAll([buf EXCEPT ![cursor + 1] = Head(iter)], cursor + 1, Tail(iter))

\* AssemblyModifier::push
m_push(value) ==
    \E r \in {PushAll(execbuf, m_asmoffset, <<value>>)} :
        /\ ModFrame
        /\ Recovered(r.ok, r.buf)
        /\ m_asmoffset' = r.cursor
        /\ m_hist' = Append(m_hist, Hist("push", <<value>>))
        /\ patchlog' = << >>
        /\ refs' = Clobber(refs, m_asmoffset, r.cursor)
        /\ UNCHANGED <<labvars, relvars, g_fwd, g_lastdef>>

\* Extend<u8> for AssemblyModifier
m_extend(iter) ==
    \E r \in {PushAll(execbuf, m_asmoffset, iter)} :
        /\ ModFrame
        /\ Recovered(r.ok, r.buf)
        /\ m_asmoffset' = r.cursor
        /\ m_hist' = Append(m_hist, Hist("push", iter))
        /\ patchlog' = << >>
        /\ refs' = Clobber(refs, m_asmoffset, r.cursor)
        /\ UNCHANGED <<labvars, relvars, g_fwd, g_lastdef>>

\* AssemblyModifier::global_reloc
m_global_reloc(name, tag) ==
    LET kind == from_tuple(tag)
    IN  /\ ModFrame
        /\ Pending < MaxRelocs
        /\ global_relocs' =
               IF kind = "panic" THEN global_relocs
               ELSE Append(global_relocs,
                           [loc |-> PatchLoc(m_asmoffset, kind), name |-> name])
        /\ Recovered(kind # "panic", execbuf)
        /\ m_hist' = Append(m_hist, Hist("global_reloc", << >>))
        /\ patchlog' = << >>
        /\ UNCHANGED <<m_asmoffset, labvars, dynamic_relocs, local_relocs, histvars>>

\* AssemblyModifier::forward_reloc
m_forward_reloc(name, tag) ==
    LET kind == from_tuple(tag)
    IN  /\ ModFrame
        /\ Pending < MaxRelocs
        /\ local_relocs' =
               IF kind = "panic" THEN local_relocs
               ELSE PushLocal(local_relocs, name, PatchLoc(m_asmoffset, kind))
        /\ g_fwd' = IF kind = "panic" THEN g_fwd
                    ELSE PushLocal(g_fwd, name, PatchLoc(m_asmoffset, kind))
        /\ Recovered(kind # "panic", execbuf)
        /\ m_hist' = Append(m_hist, Hist("forward_reloc", << >>))
        /\ patchlog' = << >>
        /\ UNCHANGED <<m_asmoffset, labvars, global_relocs, dynamic_relocs,
                       g_lastdef, refs>>

\* AssemblyModifier::local_label
m_local_label(name) ==
    \E offset \in {m_asmoffset} :
    \E todo \in {Todo(IF name \in DOMAIN local_relocs THEN local_relocs[name]
                      ELSE << >>, offset)} :
    \E r \in {PatchAll(execbuf, 0, todo, TRUE)} :
    \E done \in {SubSeq(todo, 1, r.done)} :
        /\ ModFrame
        /\ local_relocs' = Drop(local_relocs, name)
        /\ Recovered(r.ok, r.buf)
        /\ patchlog' = done
        /\ local_labels' = IF r.ok THEN Put(local_labels, name, offset) ELSE local_labels
        /\ m_hist' = Append(m_hist, Hist("local_label", << >>))
        /\ g_fwd' = Drop(g_fwd, name)
        /\ g_lastdef' = Put(g_lastdef, name, offset)
        /\ refs' = ClobberAll(refs, done)
        /\ UNCHANGED <<m_asmoffset, global_labels, dynamic_labels,
                       global_relocs, dynamic_relocs>>

\* AssemblyModifier::global_label: forwarded to the assembler, whose
\* default method defines the label at the assembler's offset()
m_global_label(name) ==
    /\ ModFrame
    /\ global_labels' = IF name \in DOMAIN global_labels THEN global_labels
                        ELSE Put(global_labels, name, Offset)
    /\ Recovered(name \notin DOMAIN global_labels, execbuf)
    /\ m_hist' = Append(m_hist, Hist("global_label", << >>))
    /\ patchlog' = << >>
    /\ UNCHANGED <<m_asmoffset, local_labels, dynamic_labels, relvars, histvars>>

\* AssemblyModifier::dynamic_label: forwarded to the assembler likewise
m_dynamic_label(id) ==
    /\ ModFrame
    /\ id \in DOMAIN dynamic_labels
    /\ dynamic_labels' = IF dynamic_labels[id] # NoOffset THEN dynamic_labels
                         ELSE [dynamic_labels EXCEPT ![id] = Offset]
    /\ Recovered(dynamic_labels[id] = NoOffset, execbuf)
    /\ m_hist' = Append(m_hist, Hist("dynamic_label", << >>))
    /\ patchlog' = << >>
    /\ UNCHANGED <<m_asmoffset, global_labels, local_labels, relvars, histvars>>

\* AssemblyModifier::dynamic_reloc
m_dynamic_reloc(id, tag) ==
    LET kind == from_tuple(tag)
    IN  /\ ModFrame
        /\ Pending < MaxRelocs
        /\ id \in DOMAIN dynamic_labels
        /\ dynamic_relocs' =
               IF kind = "panic" THEN dynamic_relocs
               ELSE Append(dynamic_relocs,
                           [loc |-> PatchLoc(m_asmoffset, kind), id |-> id])
        /\ Recovered(kind # "panic", execbuf)
        /\ m_hist' = Append(m_hist, Hist("dynamic_reloc", << >>))
        /\ patchlog' = << >>
        /\ UNCHANGED <<m_asmoffset, labvars, global_relocs, local_relocs, histvars>>

\* AssemblyModifier::backward_reloc
m_backward_reloc(name, tag) ==
    \E target \in {resolve_local(name)} :
    \E kind \in {from_tuple(tag)} :
    \E todo \in {IF target = NoOffset \/ kind = "panic" THEN << >>
                 ELSE <<[loc |-> PatchLoc(m_asmoffset, kind), target |-> target]>>} :
    \E r \in {PatchAll(execbuf, 0, todo, TRUE)} :
    \E done \in {SubSeq(todo, 1, r.done)} :
        /\ ModFrame
        /\ Recovered(target # NoOffset /\ kind # "panic" /\ r.ok, r.buf)
        /\ patchlog' = done
        /\ m_hist' = Append(m_hist, Hist("backward_reloc", << >>))
        /\ refs' = ClobberAll(refs, done)
        /\ UNCHANGED <<m_asmoffset, labvars, relvars, g_fwd, g_lastdef>>

\* AssemblyModifier::bare_reloc
m_bare_reloc(target, tag) ==
    \E kind \in {from_tuple(tag)} :
    \E todo \in {IF kind = "panic" THEN << >>
                 ELSE <<[loc |-> PatchLoc(m_asmoffset, kind), target |-> target]>>} :
    \E r \in {PatchAll(execbuf, 0, todo, TRUE)} :
    \E done \in {SubSeq(todo, 1, r.done)} :
        /\ ModFrame
        /\ Recovered(kind # "panic" /\ r.ok, r.buf)
        /\ patchlog' = done
        /\ m_hist' = Append(m_hist, Hist("bare_reloc", << >>))
        /\ refs' = ClobberAll(refs, done)
        /\ UNCHANGED <<m_asmoffset, labvars, relvars, g_fwd, g_lastdef>>

\* AssemblyModifier::align: forwarded to the assembler, which pads its
\* staging buffer up to a multiple of alignment of its own offset()
m_align(alignment) ==
    /\ pc = "alter_f"
    /\ Len(m_hist) < MaxModOps
    /\ ops' = ops \o Padding(alignment, 204)
    /\ m_hist' = Append(m_hist, Hist("align", <<alignment>>))
    /\ patchlog' = << >>
    /\ UNCHANGED <<asmoffset, bufvars, lockvars, labvars, relvars, histvars,
                   pc, call, m_asmoffset, snap, immvars>>

\* a faulty variant of alter_close: the buffer is put back without make_exec
alter_close_stays_writable ==
    \E e \in {encode_relocs(execbuf, TRUE)} :
        /\ pc = "alter_f"
        /\ UNCHANGED immvars
        /\ global_relocs' = << >>
        /\ dynamic_relocs' = e.dynamic_relocs
        /\ patchlog' = e.log
        /\ refs' = ClobberAll(refs, e.log)
        /\ execbuf' = IF e.ok THEN e.buf ELSE << >>
        /\ map_len' = IF e.ok THEN map_len ELSE InitMapLen
        /\ writable' = e.ok /\ executable' = ~e.ok
        /\ wlock' = FALSE
        /\ pc' = IF e.ok THEN "idle" ELSE "panicked"
        /\ call' = IF e.ok THEN "none" ELSE call
        /\ m_asmoffset' = 0
        /\ UNCHANGED <<stagevars, labvars, local_relocs, m_hist, executors,
                       rlocks, g_fwd, g_lastdef, snap>>

\* the end of Assembler::alter: m.encode_relocs() on the mutable buffer,
\* then the buffer is made executable again and put back under the lock
alter_close ==
    \E e \in {encode_relocs(execbuf, TRUE)} :
        /\ pc = "alter_f"
        /\ UNCHANGED immvars
        /\ global_relocs' = << >>
        /\ dynamic_relocs' = e.dynamic_relocs
        /\ patchlog' = e.log
        /\ refs' = ClobberAll(refs, e.log)
        /\ execbuf' = IF e.ok THEN e.buf ELSE << >>
        /\ map_len' = IF e.ok THEN map_len ELSE InitMapLen
        /\ writable' = FALSE /\ executable' = TRUE
        /\ wlock' = FALSE
        /\ pc' = IF e.ok THEN "idle" ELSE "panicked"
        /\ call' = IF e.ok THEN "none" ELSE call
        /\ m_asmoffset' = 0
        /\ UNCHANGED <<stagevars, labvars, local_relocs, m_hist, executors,
                       rlocks, g_fwd, g_lastdef, snap>>

(***************************************************************************)
(* The specifications.  Each one lets the caller use a part of the API,    *)
(* so that its reachable states can be enumerated.                         *)
(***************************************************************************)
\* the model emits n more bytes only up to MaxOffset
Room(n) == Offset + n <= MaxOffset

\* the three steps of a commit
Committing ==
    \/ commit
    \/ base_commit_lock
    \/ base_commit_write

\* the life cycle: emission, commit, alter, finalize and the executors
Next ==
    \/ \E iter \in {<<255, 255, 255, 255>>} : Room(Len(iter)) /\ extend(iter)
    \/ \E name \in GlobalNames : global_label(name)
    \/ \E name \in GlobalNames, tag \in {0, 7} : global_reloc(name, tag)
    \/ \E name \in LocalNames, tag \in {0} : forward_reloc(name, tag)
    \/ commit
    \/ finalize
    \/ alter
    \/ base_commit_lock
    \/ base_commit_write
    \/ base_finalize
    \/ alter_lock
    \/ \E offset \in {4} : m_goto(offset)
    \/ \E value \in ByteVals : m_push(value)
    \/ alter_close
    \/ reader
    \/ executor_lock
    \/ executor_unlock
    \/ executor_drop

Spec == Init /\ [][Next]_vars

\* the life cycle with the progress the threads make: a thread that waits
\* for the write lock gets it once the lock stays free, and the thread
\* inside base.commit runs on
Fairness ==
    /\ WF_vars(base_commit_lock)
    /\ WF_vars(base_commit_write)
    /\ WF_vars(alter_lock)

SpecFair == Spec /\ Fairness

\* local labels and the references to them
NextLocal ==
    \/ \E iter \in Words : Room(Len(iter)) /\ extend(iter)
    \/ \E name \in LocalNames : local_label(name)
    \/ \E name \in LocalNames, tag \in RelocTags : forward_reloc(name, tag)
    \/ \E name \in LocalNames, tag \in RelocTags : backward_reloc(name, tag)
    \/ Committing

SpecLocal == Init /\ [][NextLocal]_vars

\* global and dynamic labels, the references to them and commit
NextCommit ==
    \/ \E iter \in {<<255, 255, 255, 255>>} : Room(Len(iter)) /\ extend(iter)
    \/ \E name \in GlobalNames : global_label(name)
    \/ new_dynamic_label
    \/ \E id \in 1..MaxDynamic : dynamic_label(id)
    \/ \E name \in GlobalNames, tag \in {0, 6} : global_reloc(name, tag)
    \/ \E id \in 1..MaxDynamic, tag \in {0} : dynamic_reloc(id, tag)
    \/ \E name \in LocalNames, tag \in {0} : forward_reloc(name, tag)
    \/ Committing

SpecCommit == Init /\ [][NextCommit]_vars

\* alter and the operations of the modifier
NextAlter ==
    \/ \E iter \in Words : Room(Len(iter)) /\ extend(iter)
    \/ \E name \in LocalNames, tag \in {0} : forward_reloc(name, tag)
    \/ Committing
    \/ alter
    \/ alter_lock
    \/ \E offset \in GotoOffsets : m_goto(offset)
    \/ \E value \in ByteVals : m_push(value)
    \/ \E iter \in {<<1, 2, 3, 4>>} : m_extend(iter)
    \/ \E name \in GlobalNames, tag \in {0} : m_global_reloc(name, tag)
    \/ \E name \in LocalNames, tag \in {0, 7} : m_forward_reloc(name, tag)
    \/ \E name \in LocalNames : m_local_label(name)
    \/ alter_close

SpecAlter == Init /\ [][NextAlter]_vars

\* the cursor of the modifier and its checks
NextCheck ==
    \/ \E iter \in {<<255, 255, 255, 255>>} : Room(Len(iter)) /\ extend(iter)
    \/ alter
    \/ base_commit_lock
    \/ base_commit_write
    \/ alter_lock
    \/ \E offset \in GotoOffsets : m_goto(offset)
    \/ \E value \in ByteVals : m_push(value)
    \/ \E offset \in CheckOffsets : m_check(offset)
    \/ \E offset \in CheckOffsets : m_check_exact(offset)
    \/ alter_close

SpecCheck == Init /\ [][NextCheck]_vars

\* the encoder of the modifier on its own: words are emitted, committed,
\* and patched at once through the modifier
NextPatch ==
    \/ \E iter \in Words : Room(Len(iter)) /\ extend(iter)
    \/ alter
    \/ base_commit_lock
    \/ base_commit_write
    \/ alter_lock
    \/ \E offset \in GotoOffsets : m_goto(offset)
    \/ \E target \in Targets, tag \in KindTags : m_bare_reloc(target, tag)
    \/ alter_close

SpecPatch == Init /\ [][NextPatch]_vars

\* the label API of the modifier: a zero word is emitted and committed,
\* and labels and references of kind B are made through the modifier
NextModLabel ==
    \/ \E iter \in {<<0, 0, 0, 0>>} : Room(Len(iter)) /\ extend(iter)
    \/ new_dynamic_label
    \/ alter
    \/ base_commit_lock
    \/ base_commit_write
    \/ alter_lock
    \/ \E offset \in GotoOffsets : m_goto(offset)
    \/ \E name \in GlobalNames : m_global_label(name)
    \/ \E id \in 1..MaxDynamic : m_dynamic_label(id)
    \/ \E name \in LocalNames : m_local_label(name)
    \/ \E name \in GlobalNames : m_global_reloc(name, 0)
    \/ \E id \in 1..MaxDynamic : m_dynamic_reloc(id, 0)
    \/ \E name \in LocalNames : m_forward_reloc(name, 0)
    \/ \E name \in LocalNames : m_backward_reloc(name, 0)
    \/ \E target \in Targets : m_bare_reloc(target, 0)
    \/ alter_close

SpecModLabel == Init /\ [][NextModLabel]_vars

\* the close of alter: labels are defined, a zero word is emitted and
\* committed, and f records global and dynamic references and aligns
NextDrain ==
    \/ \E iter \in {<<0, 0, 0, 0>>} : Room(Len(iter)) /\ extend(iter)
    \/ \E name \in GlobalNames : global_label(name)
    \/ new_dynamic_label
    \/ \E id \in 1..MaxDynamic : dynamic_label(id)
    \/ alter
    \/ base_commit_lock
    \/ base_commit_write
    \/ alter_lock
    \/ \E offset \in GotoOffsets : m_goto(offset)
    \/ \E name \in GlobalNames : m_global_reloc(name, 0)
    \/ \E id \in 1..MaxDynamic : m_dynamic_reloc(id, 0)
    \/ \E alignment \in ModAlignments : m_align(alignment)
    \/ alter_close

SpecDrain == Init /\ [][NextDrain]_vars

\* deferred and immediate references: labels are defined, words emitted,
\* global and dynamic references recorded, backward and bare references
\* patched, and the buffer committed
NextDefer ==
    \/ \E iter \in {<<0, 0, 0, 0>>} :
           Offset + Len(iter) <= DeferLen /\ extend(iter)
    \/ \E name \in LocalNames : local_label(name)
    \/ \E name \in GlobalNames : global_label(name)
    \/ new_dynamic_label
    \/ \E id \in {1} : dynamic_label(id)
    \/ \E name \in GlobalNames, tag \in {0} : global_reloc(name, tag)
    \/ \E id \in {1}, tag \in {0} : dynamic_reloc(id, tag)
    \/ \E name \in LocalNames, tag \in {0} : backward_reloc(name, tag)
    \/ \E target \in Targets, tag \in {0} : bare_reloc(target, tag)
    \/ Committing

SpecDefer == Init /\ [][NextDefer]_vars

\* both encoders on words of 1s: the words are patched at once in the
\* staging buffer, committed, and patched at once through the modifier
\* inside one alter
NextFrame ==
    \/ \E iter \in {<<255, 255, 255, 255, 255, 255, 255, 255>>} :
           Room(Len(iter)) /\ extend(iter)
    \/ \E target \in Targets, tag \in KindTags : bare_reloc(target, tag)
    \/ alter
    \/ base_commit_lock
    \/ base_commit_write
    \/ alter_lock
    \/ \E offset \in {4, 8} : m_goto(offset)
    \/ \E target \in {8}, tag \in KindTags : m_bare_reloc(target, tag)

SpecFrame == Init /\ [][NextFrame]_vars

\* the offset and the cursor: bytes are pushed, extended and aligned, a
\* label and one reference at a time made, the buffer committed and
\* altered, and the modifier's cursor moved and pushed at
NextMono ==
    \/ \E value \in ByteVals : Offset + 1 <= MonoLen /\ push(value)
    \/ \E iter \in {<<0, 0, 0, 0>>} :
           Offset + Len(iter) <= MonoLen /\ extend(iter)
    \/ \E alignment \in Alignments : align(alignment)
    \/ \E name \in GlobalNames : global_label(name)
    \/ \E name \in GlobalNames : global_relocs = << >> /\ global_reloc(name, 0)
    \/ Committing
    \/ alter
    \/ alter_lock
    \/ \E offset \in GotoOffsets : m_goto(offset)
    \/ \E value \in ByteVals : m_push(value)
    \/ \E alignment \in Alignments : m_align(alignment)
    \/ alter_close

SpecMono == Init /\ [][NextMono]_vars

\* the relocation tags: a word is emitted, labels are defined, and the
\* five reference calls of the assembler and of the modifier are made
\* with the tag of B and with unsupported tags
NextTag ==
    \/ \E iter \in {<<0, 0, 0, 0>>} : Offset + Len(iter) <= DeferLen /\ extend(iter)
    \/ \E name \in LocalNames : local_label(name)
    \/ new_dynamic_label
    \/ \E name \in GlobalNames, tag \in {0} \cup InvalidTags : global_reloc(name, tag)
    \/ \E id \in {1}, tag \in {0} \cup InvalidTags : dynamic_reloc(id, tag)
    \/ \E name \in LocalNames, tag \in {0} \cup InvalidTags : forward_reloc(name, tag)
    \/ \E name \in LocalNames, tag \in {0} \cup InvalidTags : backward_reloc(name, tag)
    \/ \E target \in {0}, tag \in {0} \cup InvalidTags : bare_reloc(target, tag)
    \/ alter
    \/ base_commit_lock
    \/ base_commit_write
    \/ alter_lock
    \/ \E offset \in {4} : m_goto(offset)
    \/ \E name \in GlobalNames, tag \in {0} \cup InvalidTags : m_global_reloc(name, tag)
    \/ \E id \in {1}, tag \in {0} \cup InvalidTags : m_dynamic_reloc(id, tag)
    \/ \E name \in LocalNames, tag \in {0} \cup InvalidTags : m_forward_reloc(name, tag)
    \/ \E name \in LocalNames, tag \in {0} \cup InvalidTags : m_backward_reloc(name, tag)
    \/ \E target \in {0}, tag \in {0} \cup InvalidTags : m_bare_reloc(target, tag)

SpecTag == Init /\ [][NextTag]_vars

\* the words handed to the helper, low byte first
ImmValues == {read_u32(<<a, b, c, d>>) : a, b, c, d \in ImmBytes}

\* a call of encode_logical_immediate_32bit on the word drawn
call_encode_logical_immediate_32bit ==
    /\ imm_result = NotCalled
    /\ imm_result' \in Outcomes(imm_value)
    /\ UNCHANGED <<asmvars, imm_value>>

InitImm == new /\ imm_value \in ImmValues /\ imm_result = NotCalled
NextImm == call_encode_logical_immediate_32bit
SpecImm == InitImm /\ [][NextImm]_vars

\* a backward conditional branch: zero words and the b.eq placeholder
\* 0x54000000 are emitted, "top" is defined and referred to with BCOND
NextBcond ==
    \/ \E iter \in {<<0, 0, 0, 0>>, <<0, 0, 0, 84>>} :
           Offset + Len(iter) <= ScenarioLen /\ extend(iter)
    \/ local_label("top")
    \/ backward_reloc("top", 1)

SpecBcond == Init /\ [][NextBcond]_vars

\* the encoder on its own: words are emitted and patched at once against
\* absolute targets, with every relocation kind
NextReloc ==
    \/ \E iter \in Words : Room(Len(iter)) /\ extend(iter)
    \/ \E target \in Targets, tag \in KindTags : bare_reloc(target, tag)

SpecReloc == Init /\ [][NextReloc]_vars

(***************************************************************************)
(* The properties.                                                         *)
(***************************************************************************)
\* the assembled stream: the committed bytes followed by the staged ones
Stream == execbuf \o ops

\* the assembling thread is inside the critical section of commit or alter
InCritical == pc \in {"commit_write", "alter_f"}

\* the last call of `method` has returned normally and nothing was done since
Returned(method) == pc = "idle" /\ snap.method = method

\* bit j of the little-endian value stored in bytes
StoredBit(bytes, j) == BitOf(bytes[(j \div 8) + 1], j % 8) = 1

\* the target field of a site of kind `kind` stored in bytes holds the
\* displacement d: bits lo.. of d sit at bits at.. of the stored value
FieldIs(bytes, at, d, lo, width) ==
    \A i \in 0..(width - 1) : StoredBit(bytes, at + i) <=> (BitOf(d, lo + i) = 1)

HoldsDisp(bytes, kind, d) ==
    CASE kind = "B"         -> FieldIs(bytes, 0, d, 2, 26)
      [] kind = "BCOND"     -> FieldIs(bytes, 5, d, 2, 19)
      [] kind = "ADR"       -> FieldIs(bytes, 29, d, 0, 2) /\ FieldIs(bytes, 5, d, 2, 19)
      [] kind = "ADRP"      -> FieldIs(bytes, 29, d, 12, 2) /\ FieldIs(bytes, 5, d, 14, 19)
      [] kind = "TBZ"       -> FieldIs(bytes, 5, d, 2, 14)
      [] kind = "LITERAL32" -> FieldIs(bytes, 0, d, 0, 32)
      [] kind = "LITERAL64" -> FieldIs(bytes, 0, d, 0, 64)

\* C1 (W^X): the committed region is never writable and executable at
\* once; it is writable (and not executable) only inside the critical
\* section of commit or alter, where the write lock is held and no read
\* lock is live, and executable (and not writable) in every other state,
\* also after alter has returned.
C1_WXorX ==
    /\ ~(writable /\ executable)
    /\ writable => (InCritical /\ wlock /\ rlocks = 0)
    /\ ~InCritical => (executable /\ ~writable)

\* alter has returned after its modifier wrote to the buffer, and the
\* region is executable again while an executor reads it
C1_Witness ==
    /\ Returned("alter") /\ m_hist # << >>
    /\ executable /\ ~writable /\ rlocks > 0

\* C2 (local label resolution): every resolved reference to a local label,
\* forward or backward, whose site was not overwritten since holds the
\* displacement from its own instruction start (end - size) to the
\* definition it was resolved against; this holds in every state and so
\* after commit, when the site lies in the committed region.
C2_LocalRefsResolved ==
    \A r \in refs :
        /\ r.end - size(r.kind) >= 0 /\ r.end <= Len(Stream)
        /\ HoldsDisp(Slice(Stream, r.end - size(r.kind), size(r.kind)),
                     r.kind, r.target - (r.end - size(r.kind)))

\* a B forward reference at bytes 0..4 and a backward reference at bytes
\* 4..8 to a label defined at offset 8 are committed; the first reads
\* 0x00000002
C2_Witness ==
    /\ Returned("commit") /\ ops = << >>
    /\ [end |-> 4, kind |-> "B", target |-> 8] \in refs
    /\ [end |-> 8, kind |-> "B", target |-> 8] \in refs
    /\ Len(execbuf) = 8
    /\ SubSeq(execbuf, 1, 4) = <<2, 0, 0, 0>>

\* the list of a name in a name -> list map, empty for an absent name
ListOf(f, name) == IF name \in DOMAIN f THEN f[name] ELSE << >>

\* C3 (multiple local definitions): a local_label(L) that returns patches
\* exactly the forward references to L issued since the previous definition
\* of L, in order, against the offset being defined, with the pending list
\* of L removed and the registry updated to that offset; one that panics
\* has removed the list and left the registry alone; a backward_reloc(L)
\* that returns patches its one site against the last definition of L.  So
\* no reference is patched against a definition that another definition of
\* L separates it from.
C3_MultipleLocalDefinitions ==
    [][\A name \in LocalNames :
         /\ (local_label(name) /\ pc' = "idle") =>
                /\ patchlog' = Todo(ListOf(g_fwd, name), Offset)
                /\ name \notin DOMAIN local_relocs'
                /\ local_labels'[name] = Offset
         /\ (local_label(name) /\ pc' = "panicked") =>
                /\ name \notin DOMAIN local_relocs'
                /\ local_labels' = local_labels
         /\ \A tag \in RelocTags :
                (backward_reloc(name, tag) /\ pc' = "idle") =>
                    /\ name \in DOMAIN g_lastdef
                    /\ patchlog' = <<[loc |-> PatchLoc(Offset, from_tuple(tag)),
                                      target |-> g_lastdef[name]]>>
                    /\ local_labels' = local_labels
      ]_vars

\* L was defined at offset 4 and again at offset 8: the forward reference
\* at bytes 0..4 stays bound to the first definition and the backward
\* reference at bytes 4..8 is bound to the second
C3_Witness ==
    /\ pc = "idle"
    /\ [end |-> 4, kind |-> "B", target |-> 4] \in refs
    /\ [end |-> 8, kind |-> "B", target |-> 8] \in refs
    /\ "a" \in DOMAIN local_labels /\ local_labels["a"] = 8

\* the bytes [end - size, end) of a patch location
Site(loc) == (loc.end - size(loc.kind))..(loc.end - 1)

\* the patches commit owes for the lists recorded in snap, in the order of
\* the lists, against the offsets the registry holds
OwedPatches ==
    [i \in 1..Len(snap.globals) |->
        [loc |-> snap.globals[i].loc, target |-> resolve_global(snap.globals[i].name)]]
    \o [i \in 1..Len(snap.dynamics) |->
        [loc |-> snap.dynamics[i].loc, target |-> resolve_dynamic(snap.dynamics[i].id)]]

\* commit has run its encoder and not yet promoted the staged bytes
Encoded == pc \in {"commit_lock", "commit_write"} /\ snap.method = "commit"

\* C4 (commit drains the pending lists): once the encoder of commit is
\* through, and when commit has returned, the three lists are empty and
\* the patches made are exactly one per entry that was pending on the
\* global and the dynamic list, in order, each against the offset the
\* registry holds for its label and each inside the staging portion, where
\* a site no later patch overlaps holds the displacement to that offset;
\* until the encoder is through the committed region and the length of the
\* staging buffer are as before the call, and on return the staged bytes
\* are appended to the committed region and the staging buffer is empty.
C4_CommitDrains ==
    (Encoded \/ Returned("commit")) =>
        /\ global_relocs = << >> /\ dynamic_relocs = << >>
        /\ local_relocs = EmptyMap
        /\ patchlog = OwedPatches
        /\ \A i \in 1..Len(patchlog) :
              LET l == patchlog[i].loc
                  start == l.end - size(l.kind)
              IN  /\ patchlog[i].target # NoOffset
                  /\ start >= snap.offset - Len(snap.ops)
                  /\ l.end <= snap.offset
                  /\ (\A j \in (i + 1)..Len(patchlog) :
                          Site(patchlog[j].loc) \cap Site(l) = {})
                     => HoldsDisp(Slice(Stream, start, size(l.kind)), l.kind,
                                  patchlog[i].target - start)
        /\ Encoded => /\ execbuf = snap.execbuf
                      /\ Len(ops) = Len(snap.ops)
                      /\ asmoffset = Len(snap.execbuf)
        /\ Returned("commit") => /\ execbuf = snap.execbuf \o snap.staged
                                 /\ Len(snap.staged) = Len(snap.ops)
                                 /\ ops = << >>

\* commit has returned after patching a global and a dynamic reference
\* against two different offsets
C4_Witness ==
    /\ Returned("commit")
    /\ Len(snap.globals) = 1 /\ Len(snap.dynamics) = 1
    /\ Len(patchlog) = 2
    /\ patchlog[1].target # patchlog[2].target
    /\ execbuf # << >>

\* some entry recorded in snap names a label the registry has no offset for
UnknownLabel ==
    \/ \E i \in 1..Len(snap.globals) : resolve_global(snap.globals[i].name) = NoOffset
    \/ \E i \in 1..Len(snap.dynamics) : resolve_dynamic(snap.dynamics[i].id) = NoOffset

\* C5 (unknown global or dynamic label at commit): a commit called with an
\* entry on the global or dynamic list whose label has no definition
\* panics, with the committed region, asmoffset and the length of the
\* staging buffer as before the call; so commit gets to its promotion, and
\* returns, only when every entry has a defined target.
C5_UnknownLabelFatal ==
    (snap.method = "commit" /\ UnknownLabel) =>
        /\ pc = "panicked"
        /\ execbuf = snap.execbuf
        /\ asmoffset = snap.offset - Len(snap.ops)
        /\ Len(ops) = Len(snap.ops)

\* commit has panicked on an undefined dynamic label after it patched a
\* reference to a defined global label; the staged bytes are still staged
C5_Witness ==
    /\ pc = "panicked" /\ snap.method = "commit"
    /\ Len(snap.globals) = 1 /\ Len(snap.dynamics) = 1
    /\ resolve_global(snap.globals[1].name) # NoOffset
    /\ resolve_dynamic(snap.dynamics[1].id) = NoOffset
    /\ Len(patchlog) = 1
    /\ ops # << >> /\ execbuf = << >>

\* commit or alter has got past its encoder and its lock, or has returned
PastEncoder ==
    \/ pc \in {"commit_lock", "commit_write", "alter_lock"}
    \/ Returned("commit")
    \/ Returned("alter")

\* C6 (unresolved forward local reference): a commit, or the commit or the
\* close of an alter, that runs while a forward_reloc(L) has not been
\* followed by a local_label(L) panics, with asmoffset and the length of
\* the staging buffer unchanged and, at a commit, the committed region
\* unchanged; so commit and alter get past their encoder, and return, only
\* with local_relocs empty.
C6_UnresolvedForwardFatal ==
    /\ [](PastEncoder => (local_relocs = EmptyMap /\ g_fwd = EmptyMap))
    /\ [][((commit \/ alter \/ alter_close) /\ g_fwd # EmptyMap) =>
             /\ pc' = "panicked"
             /\ asmoffset' = asmoffset
             /\ Len(ops') = Len(ops)
             /\ pc = "idle" => execbuf' = execbuf
             /\ Len(execbuf') <= Len(execbuf)
         ]_vars

\* the close of an alter has panicked on the forward reference its
\* modifier issued and left pending
C6_Witness ==
    /\ pc = "panicked" /\ call = "alter"
    /\ m_hist = <<Hist("forward_reloc", << >>)>>
    /\ local_relocs # EmptyMap /\ g_fwd # EmptyMap
    /\ snap.altered # << >>

\* C7 as the spec states it: finalize hands over the buffer only when no
\* Executor exists, and when it returns the assembler the staging bytes,
\* the committed bytes, asmoffset, the label registry and the three
\* pending lists are as before the call.
C7_FinalizeLeavesStateUnchanged ==
    /\ pc = "finalized" => executors = 0
    /\ Returned("finalize") =>
           /\ ops = snap.ops
           /\ execbuf = snap.execbuf
           /\ asmoffset = snap.offset - Len(snap.ops)
           /\ labvars = snap.labels
           /\ global_relocs = snap.globals
           /\ dynamic_relocs = snap.dynamics
           /\ local_relocs = snap.locals

\* the bytes of the staging buffer that no patch of the commit covers are
\* promoted as they were staged
StagedAsWritten ==
    /\ Len(snap.staged) = Len(snap.ops)
    /\ \A i \in 1..Len(snap.ops) :
           (\A k \in 1..Len(patchlog) :
                (snap.offset - Len(snap.ops)) + i - 1 \notin Site(patchlog[k].loc))
           => snap.staged[i] = snap.ops[i]

\* C7 (finalize under contention), amended: finalize commits first.  When
\* that commit is through, finalize hands over the buffer if no Executor
\* exists and returns the assembler if one does; in both cases the state
\* is the one the commit left: the staging buffer is empty, the committed
\* bytes are the previous ones followed by the staged bytes as patched,
\* asmoffset has advanced by the staged length, the global and dynamic
\* lists are drained, the local list is empty and the label registry is
\* as before the call.
C7_FinalizeCommitsFirst ==
    /\ []((Returned("finalize") \/ pc = "finalized") =>
            /\ ops = << >>
            /\ execbuf = snap.execbuf \o snap.staged
            /\ StagedAsWritten
            /\ asmoffset = snap.offset
            /\ labvars = snap.labels
            /\ global_relocs = << >> /\ dynamic_relocs = << >>
            /\ local_relocs = EmptyMap /\ snap.locals = EmptyMap)
    /\ [][(pc = "finalize_try" /\ pc' # pc) =>
             /\ pc' = IF executors = 0 THEN "finalized" ELSE "idle"
             /\ UNCHANGED <<stagevars, bufvars, labvars, relvars, lockvars>>
         ]_vars

\* finalize has returned the assembler, an Executor being alive, after it
\* promoted staged bytes behind bytes committed before
C7_Witness ==
    /\ Returned("finalize") /\ executors > 0
    /\ snap.execbuf # << >> /\ snap.ops # << >>
    /\ ops = << >> /\ execbuf = snap.execbuf \o snap.ops

\* the assembling thread waits for, or holds, the write lock of base.commit
InCommit == pc \in {"commit_lock", "commit_write"}

\* C8 (readers block commit): while a read lock is held no byte, the
\* capacity and the protection of the committed region do not change;
\* commit and alter leave their wait for the write lock only when no read
\* lock is held, so the critical sections run without readers; and a
\* commit that waits gets the lock and completes unless a reader holds a
\* lock again.
C8_ReadersBlockCommit ==
    /\ [](rlocks <= executors /\ (InCritical => rlocks = 0))
    /\ [][rlocks > 0 => UNCHANGED bufvars]_vars
    /\ [][(pc \in {"commit_lock", "alter_lock"} /\ pc' # pc) =>
             (rlocks = 0 /\ rlocks' = 0 /\ wlock')]_vars
    /\ InCommit ~> (~InCommit \/ rlocks > 0)

\* a commit with staged bytes waits while two Executors hold their read
\* locks on the committed region
C8_Witness ==
    /\ pc = "commit_lock" /\ call = "commit"
    /\ rlocks = MaxReaders /\ rlocks > 1
    /\ ops # << >> /\ execbuf # << >>
    /\ executable /\ ~writable

RECURSIVE PushedBytes(_)
PushedBytes(h) == IF h = << >> THEN << >> ELSE Head(h).arg \o PushedBytes(Tail(h))

\* the modifier did a goto and then only pushes
GotoThenPushes ==
    /\ Len(m_hist) >= 1
    /\ m_hist[1].op = "goto"
    /\ \A i \in 2..Len(m_hist) : m_hist[i].op = "push"

\* C10 (alter round-trip): when an alter whose modifier did goto(o) and
\* then k pushes has returned, bytes o..o+k of the committed region are
\* the pushed bytes, every other byte and the length are as when the
\* modifier got the buffer, and the region is executable and not writable.
C10_AlterRoundTrip ==
    (Returned("alter") /\ GotoThenPushes) =>
        LET o == m_hist[1].arg[1]
            bytes == PushedBytes(Tail(m_hist))
        IN  /\ bytes # << >> => o + Len(bytes) <= Len(snap.altered)
            /\ Len(execbuf) = Len(snap.altered)
            /\ \A i \in 1..Len(execbuf) :
                   execbuf[i] = IF i > o /\ i <= o + Len(bytes)
                                THEN bytes[i - o] ELSE snap.altered[i]
            /\ executable /\ ~writable

\* on a committed payload of eight bytes the modifier did goto(4) and
\* overwrote bytes 4..8 with a new word
C10_Witness ==
    /\ Returned("alter")
    /\ m_hist = <<Hist("goto", <<4>>), Hist("push", <<1, 2, 3, 4>>)>>
    /\ snap.altered = <<255, 255, 255, 255, 255, 255, 255, 255>>
    /\ execbuf = <<255, 255, 255, 255, 1, 2, 3, 4>>
    /\ executable /\ ~writable

\* the n bytes at absolute offset start of the staging buffer are zero
ZeroSite(start, n) ==
    /\ start >= asmoffset /\ start + n <= Offset
    /\ \A i \in 1..n : ops[start - asmoffset + i] = 0

\* C11 (relocation round-trip): for every kind K and displacement
\* d = target - (end - K.size()), a patch of a zero site returns and the
\* site then reads back d mod 2^32 (LITERAL32), d mod 2^64 (LITERAL64),
\* bits [27:2] of d (B), [20:2] (BCOND), [20:0] split 2 / 19 (ADR),
\* [32:12] split the same way (ADRP) and [15:2] (TBZ).
C11_RelocationRoundTrip ==
    [][\A target \in Targets, tag \in KindTags :
         (bare_reloc(target, tag) /\ ZeroSite(Offset - size(from_tuple(tag)),
                                             size(from_tuple(tag)))) =>
             /\ pc' = "idle"
             /\ HoldsDisp(Slice(ops', Offset - size(from_tuple(tag)) - asmoffset,
                                size(from_tuple(tag))),
                          from_tuple(tag),
                          target - (Offset - size(from_tuple(tag))))
      ]_vars

\* the last entry of the modifier's history
LastOp == m_hist[Len(m_hist)]

\* what a check leaves alone: the cursor, the committed bytes, the label
\* registry and the pending lists
CheckFrame == UNCHANGED <<m_asmoffset, execbuf, labvars, relvars>> /\ pc' = "alter_f"

\* C12 (modifier checks): check(o) returns Ok iff the cursor is <= o and
\* check_exact(o) returns Ok iff the cursor is o, each returns CheckFailed
\* otherwise, and in both outcomes the cursor, the committed bytes, the
\* label registry and the pending lists are unchanged and f goes on.
C12_ModifierChecks ==
    [][\A o \in CheckOffsets :
         /\ m_check(o) =>
                /\ LastOp' = Hist(IF m_asmoffset <= o THEN "check: Ok"
                                  ELSE "check: CheckFailed", <<o>>)
                /\ CheckFrame
         /\ m_check_exact(o) =>
                /\ LastOp' = Hist(IF m_asmoffset = o THEN "check_exact: Ok"
                                  ELSE "check_exact: CheckFailed", <<o>>)
                /\ CheckFrame
      ]_vars

\* with the cursor at 1 after a push, check(0) has failed, and the
\* committed bytes but the pushed one are as the modifier got them
C12_Witness ==
    /\ pc = "alter_f" /\ m_asmoffset = 1
    /\ m_hist = <<Hist("push", <<0>>), Hist("check: CheckFailed", <<0>>)>>
    /\ execbuf = <<0, 255, 255, 255>>
    /\ snap.altered = <<255, 255, 255, 255>>

\* the backward conditional branch is about to be patched: "top" was
\* defined at offset 0, twelve zero bytes and the word 0x54000000 follow,
\* and the offset is 16
BcondStaged ==
    /\ pc = "idle" /\ asmoffset = 0
    /\ ops = <<0, 0, 0, 0, 0, 0, 0, 0, 0, 0, 0, 0, 0, 0, 0, 84>>
    /\ "top" \in DOMAIN g_lastdef /\ g_lastdef["top"] = 0

\* C13 as the spec states it: the patched word at bytes 12..16 is
\* 0x54FFFF80.
C13_BcondBackwardAsStated ==
    [][(BcondStaged /\ backward_reloc("top", 1)) =>
           Slice(ops', 12, 4) = <<128, 255, 255, 84>>]_vars

\* C13 (BCOND backward scenario), amended: the patched word at bytes
\* 12..16 is 0x54FFFFA0, the displacement 0 - 12 from the start of the
\* instruction in bits [23:5], and bytes 0..12 stay zero.
C13_BcondBackward ==
    [][(BcondStaged /\ backward_reloc("top", 1)) =>
           /\ pc' = "idle"
           /\ Slice(ops', 12, 4) = <<160, 255, 255, 84>>
           /\ SubSeq(ops', 1, 12) = SubSeq(ops, 1, 12)
           /\ Len(ops') = 16]_vars

\* the scenario has run: the last patch is the BCOND at 12..16 against
\* offset 0
C13_Witness ==
    /\ pc = "idle"
    /\ patchlog = <<[loc |-> PatchLoc(16, "BCOND"), target |-> 0]>>
    /\ ops = <<0, 0, 0, 0, 0, 0, 0, 0, 0, 0, 0, 0, 160, 255, 255, 84>>
    /\ "top" \in DOMAIN local_labels /\ local_labels["top"] = 0

\* the words that are a rotation of a contiguous run of 1s (neither empty
\* nor full) in an element of 2, 4, 8, 16 or 32 bits, replicated across
\* the 32 bits
LogicalImmediates ==
    {{i \in 0..31 : \E k \in 0..(ones - 1) : i % e = (k + rot) % e} :
        <<e, ones, rot>> \in
            {t \in {2, 4, 8, 16, 32} \X (1..31) \X (0..31) :
                t[2] < t[1] /\ t[3] < t[1]}}

\* C14 (32-bit logical immediate): the helper returns an encoded field
\* exactly for the words that are a rotated run of 1s replicated at an
\* element size of 2, 4, 8, 16 or 32, returns None for every other word
\* and never fails; for 0x0000FFFF it returns 0x002F.
C14_LogicalImmediate32 ==
    imm_result # NotCalled =>
        /\ imm_value \in LogicalImmediates => imm_result.tag = "Some"
        /\ imm_value \notin LogicalImmediates => imm_result = None
        /\ imm_value = 0..15 => imm_result = Some(47)

\* the modifier's cursor is the end of a site of the kind inside the
\* committed bytes
SiteAtCursor(kind) == m_asmoffset >= size(kind) /\ m_asmoffset <= Len(execbuf)

\* C15 (modifier and staging encoder agree): a patch through the modifier
\* writes, at the same site, the bytes Assembler::patch_loc writes for the
\* same kind, end offset, target and existing bytes, and the site holds
\* the displacement target - (end_offset - size).
C15_ModifierAgreesWithEncoder ==
    [][\A target \in Targets, tag \in KindTags :
         (m_bare_reloc(target, tag) /\ SiteAtCursor(from_tuple(tag))) =>
             /\ pc' = "alter_f"
             /\ execbuf' = patch_loc(execbuf, 0,
                                     PatchLoc(m_asmoffset, from_tuple(tag)),
                                     target).buf
      ]_vars

\* the last entry of a list
Last(list) == list[Len(list)]

\* the operation of the modifier returned to f
ModReturned == pc' = "alter_f"

\* C16 (modifier offsets come from the cursor): a label defined through
\* the modifier is recorded at the modifier's cursor, and a reference made
\* through it has the cursor as its end offset.
C16_ModifierOffsetsFromCursor ==
    [][/\ \A name \in GlobalNames :
            (m_global_label(name) /\ ModReturned) =>
                global_labels'[name] = m_asmoffset
       /\ \A id \in 1..MaxDynamic :
            (m_dynamic_label(id) /\ ModReturned) =>
                dynamic_labels'[id] = m_asmoffset
       /\ \A name \in LocalNames :
            (m_local_label(name) /\ ModReturned) =>
                local_labels'[name] = m_asmoffset
       /\ \A name \in GlobalNames :
            (m_global_reloc(name, 0) /\ ModReturned) =>
                Last(global_relocs').loc.end = m_asmoffset
       /\ \A id \in 1..MaxDynamic :
            (m_dynamic_reloc(id, 0) /\ ModReturned) =>
                Last(dynamic_relocs').loc.end = m_asmoffset
       /\ \A name \in LocalNames :
            (m_forward_reloc(name, 0) /\ ModReturned) =>
                Last(local_relocs'[name]).end = m_asmoffset
       /\ \A name \in LocalNames :
            (m_backward_reloc(name, 0) /\ ModReturned) =>
                Last(patchlog').loc.end = m_asmoffset
       /\ \A target \in Targets :
            (m_bare_reloc(target, 0) /\ ModReturned) =>
                Last(patchlog').loc.end = m_asmoffset
      ]_vars

\* the references the close of alter owes a patch, with their registry
\* targets
CloseTodo == GlobalTodo(global_relocs) \o DynamicTodo(dynamic_relocs)

\* C17 (close of alter drains into the committed view): when alter returns
\* normally, the close has patched every pending global and dynamic
\* reference in the mutable committed view against its registry target,
\* the three pending lists are empty, the close has left the staging
\* buffer alone, and the staging buffer is empty as it was when f started.
C17_CloseDrainsIntoCommitted ==
    [][(alter_close /\ pc' = "idle") =>
           /\ patchlog' = CloseTodo
           /\ execbuf' = PatchAll(execbuf, 0, CloseTodo, TRUE).buf
           /\ global_relocs' = << >> /\ dynamic_relocs' = << >>
           /\ local_relocs' = EmptyMap
           /\ ops' = ops
           /\ ops' = << >>
      ]_vars

IsPrefix(a, b) == Len(a) <= Len(b) /\ SubSeq(b, 1, Len(a)) = a

\* a reference of the kind made now at the current offset against target
\* is patched at once: patch_loc ran on its site, which holds the
\* displacement from the site to the target, and no list has changed
PatchedAtOnce(kind, target) ==
    /\ patchlog' = <<[loc |-> PatchLoc(Offset, kind), target |-> target]>>
    /\ HoldsDisp(Slice(ops', Offset - size(kind) - asmoffset, size(kind)),
                 kind, target - (Offset - size(kind)))
    /\ UNCHANGED <<relvars, labvars, execbuf, asmoffset>>

\* C18 (global and dynamic references are always deferred): global_reloc
\* and dynamic_reloc change no byte and nothing else but append one entry
\* (PatchLoc(current offset, kind), label) to their list, defined label or
\* not; an entry leaves its list only at a commit, which patches it;
\* backward_reloc and bare_reloc patch at once and add to no list.
C18_GlobalDynamicDeferred ==
    [][/\ \A name \in GlobalNames, tag \in {0} :
            (global_reloc(name, tag) /\ pc' = "idle") =>
                /\ global_relocs' =
                       Append(global_relocs,
                              [loc |-> PatchLoc(Offset, from_tuple(tag)),
                               name |-> name])
                /\ patchlog' = << >>
                /\ UNCHANGED <<stagevars, execbuf, labvars, dynamic_relocs,
                               local_relocs>>
       /\ \A id \in {1}, tag \in {0} :
            (dynamic_reloc(id, tag) /\ pc' = "idle") =>
                /\ dynamic_relocs' =
                       Append(dynamic_relocs,
                              [loc |-> PatchLoc(Offset, from_tuple(tag)),
                               id |-> id])
                /\ patchlog' = << >>
                /\ UNCHANGED <<stagevars, execbuf, labvars, global_relocs,
                               local_relocs>>
       /\ \/ /\ commit
             /\ pc' = "commit_lock" =>
                    /\ patchlog' = GlobalTodo(global_relocs)
                                   \o DynamicTodo(dynamic_relocs)
                    /\ global_relocs' = << >> /\ dynamic_relocs' = << >>
          \/ /\ IsPrefix(global_relocs, global_relocs')
             /\ IsPrefix(dynamic_relocs, dynamic_relocs')
       /\ \A name \in LocalNames, tag \in {0} :
            (backward_reloc(name, tag) /\ pc' = "idle") =>
                PatchedAtOnce(from_tuple(tag), local_labels[name])
       /\ \A target \in Targets, tag \in {0} :
            (bare_reloc(target, tag) /\ pc' = "idle") =>
                PatchedAtOnce(from_tuple(tag), target)
      ]_vars

\* a reference to a global label defined already is pending and its site
\* unpatched
C18_Witness ==
    /\ pc = "idle"
    /\ global_labels = [x \in {"g"} |-> 4]
    /\ global_relocs = <<[loc |-> PatchLoc(4, "B"), name |-> "g"]>>
    /\ ops = <<0, 0, 0, 0>>
    /\ refs = {}
    /\ patchlog = << >>

\* the bits of the instruction word outside the target field of a bitfield
\* kind: 0xFC000000, 0xFF00001F, 0x9F00001F, 0x9F00001F, 0xFFF8001F
KeptBits(kind) ==
    CASE kind = "B"     -> 26..31
      [] kind = "BCOND" -> (24..31) \cup (0..4)
      [] kind = "ADR"   -> {31} \cup (24..28) \cup (0..4)
      [] kind = "ADRP"  -> {31} \cup (24..28) \cup (0..4)
      [] kind = "TBZ"   -> (19..31) \cup (0..4)

\* a patch of the site of the kind that ends at `end` (0-based in the
\* buffers) turned before into after: the length and the bytes outside the
\* site are the same, and for a bitfield kind so are the kept bits
PatchFrame(before, after, end, kind) ==
    /\ Len(after) = Len(before)
    /\ \A i \in 1..Len(before) :
          (i <= end - size(kind) \/ i > end) => after[i] = before[i]
    /\ kind \notin {"LITERAL32", "LITERAL64"} =>
          \A j \in KeptBits(kind) :
              StoredBit(Slice(after, end - 4, 4), j)
                  <=> StoredBit(Slice(before, end - 4, 4), j)

\* the encoded displacement of a bitfield kind has no bit among the kept
\* bits, so that `patch & !mask` is `patch`
PatchInField(kind, t) ==
    kind \notin {"LITERAL32", "LITERAL64"} =>
        /\ Patch(kind, AsU32(t)) \cap KeptBits(kind) = {}
        /\ Patch(kind, AsU32(t)) \cap Not32(Mask(kind)) = Patch(kind, AsU32(t))

\* C19 (patch frame): a patch of the staging encoder or of the modifier
\* changes only the size bytes of its site [end - size, end), leaves every
\* bit under the mask of a bitfield kind as it was, and encodes no bit
\* under the mask.
C19_PatchFrame ==
    [][\A target \in Targets, tag \in KindTags :
         /\ (pc = "idle" /\ pc' = "idle"
                /\ patchlog' = <<[loc |-> PatchLoc(Offset, from_tuple(tag)),
                                  target |-> target]>>
                /\ bare_reloc(target, tag)) =>
                /\ PatchFrame(ops, ops', Offset - asmoffset, from_tuple(tag))
                /\ PatchInField(from_tuple(tag),
                                wrapping_sub(target, Offset - size(from_tuple(tag))))
                /\ UNCHANGED execbuf
         /\ (pc = "alter_f" /\ pc' = "alter_f"
                /\ patchlog' = <<[loc |-> PatchLoc(m_asmoffset, from_tuple(tag)),
                                  target |-> target]>>
                /\ m_bare_reloc(target, tag)) =>
                /\ PatchFrame(execbuf, execbuf', m_asmoffset, from_tuple(tag))
                /\ PatchInField(from_tuple(tag), wrapping_sub(target, m_asmoffset))
                /\ UNCHANGED ops
      ]_vars

\* a B patched in the staging buffer has cleared its field and kept its
\* upper six bits, and a BCOND patched through the modifier has kept the
\* bits around its field
C19_Witness ==
    /\ pc = "alter_f"
    /\ patchlog = <<[loc |-> PatchLoc(4, "BCOND"), target |-> 8]>>
    /\ execbuf = <<63, 0, 0, 255, 1, 0, 0, 252>>

\* the PatchLocs on the three pending lists
PendingLocs ==
    {global_relocs[i].loc : i \in 1..Len(global_relocs)}
    \cup {dynamic_relocs[i].loc : i \in 1..Len(dynamic_relocs)}
    \cup UNION {{local_relocs[name][i] : i \in 1..Len(local_relocs[name])} :
                name \in DOMAIN local_relocs}

\* C20 (pending PatchLoc invariant): every PatchLoc on a pending list has
\* end_offset >= kind.size().
C20_PendingPatchLocs == \A loc \in PendingLocs : loc.end >= size(loc.kind)

\* a step of emission: push, extend or align on the assembler, or the
\* align the modifier forwards to it
Emission ==
    \/ \E value \in ByteVals : push(value)
    \/ \E iter \in {<<0, 0, 0, 0>>} : extend(iter)
    \/ \E alignment \in Alignments : align(alignment)
    \/ \E alignment \in Alignments : m_align(alignment)

\* C21 (offset monotonicity): the assembler's offset() never decreases;
\* push adds 1 to it and every step that is no emission (commit, alter,
\* the label and reference calls) leaves it as it is; the cursor of a
\* modifier moves backward only through goto, and a push of the modifier
\* that returns advances it by exactly 1.
C21_OffsetMonotonic ==
    [][/\ Offset' >= Offset
       /\ \A value \in ByteVals : push(value) => Offset' = Offset + 1
       /\ Offset' = Offset \/ Emission
       /\ (pc = "alter_f" /\ pc' = "alter_f" /\ m_asmoffset' < m_asmoffset) =>
              \E offset \in GotoOffsets : m_goto(offset)
       /\ \A value \in ByteVals :
              (pc = "alter_f" /\ ModReturned /\ m_push(value)) =>
                  m_asmoffset' = m_asmoffset + 1
      ]_vars

\* a byte was pushed and the buffer aligned and committed by alter, and in
\* the modifier a push advanced the cursor and a goto moved it back
C21_Witness ==
    /\ pc = "alter_f"
    /\ asmoffset = 4 /\ ops = << >>
    /\ execbuf = <<0, 204, 204, 204>>
    /\ m_hist = <<Hist("push", <<0>>), Hist("goto", <<0>>)>>
    /\ m_asmoffset = 0

\* one of the five reference calls of the assembler with the tag
AsmRelocCall(tag) ==
    \/ \E name \in GlobalNames : global_reloc(name, tag)
    \/ \E id \in {1} : dynamic_reloc(id, tag)
    \/ \E name \in LocalNames : forward_reloc(name, tag)
    \/ \E name \in LocalNames : backward_reloc(name, tag)
    \/ \E target \in {0} : bare_reloc(target, tag)

\* one of the five reference calls of the modifier with the tag
ModRelocCall(tag) ==
    \/ \E name \in GlobalNames : m_global_reloc(name, tag)
    \/ \E id \in {1} : m_dynamic_reloc(id, tag)
    \/ \E name \in LocalNames : m_forward_reloc(name, tag)
    \/ \E name \in LocalNames : m_backward_reloc(name, tag)
    \/ \E target \in {0} : m_bare_reloc(target, tag)

\* tags 0..6 are B, BCOND, ADR, ADRP, TBZ, LITERAL32, LITERAL64 with the
\* sizes 4, 4, 4, 4, 4, 4, 8
TagTable ==
    /\ <<from_tuple(0), from_tuple(1), from_tuple(2), from_tuple(3),
         from_tuple(4), from_tuple(5), from_tuple(6)>>
       = <<"B", "BCOND", "ADR", "ADRP", "TBZ", "LITERAL32", "LITERAL64">>
    /\ [tag \in 0..6 |-> size(from_tuple(tag))]
       = [tag \in 0..6 |-> IF tag = 6 THEN 8 ELSE 4]

\* C22 as the spec states it: a reference call with a tag outside 0..6, on
\* the assembler or on the modifier, panics, adds no entry to a pending
\* list and changes no byte of the staging or of the committed buffer.
C22_InvalidTagFatalAsStated ==
    [][\A tag \in InvalidTags :
          (AsmRelocCall(tag) \/ ModRelocCall(tag)) =>
              /\ pc' = "panicked"
              /\ UNCHANGED <<relvars, ops, execbuf>>
      ]_vars

\* C22 (invalid relocation tag is fatal), amended: a reference call with
\* a tag outside 0..6 panics, adds no entry to a pending list and writes
\* no byte; on the assembler both buffers are as they were, while the
\* panic of a call on the modifier unwinds through alter, whose recovery
\* replaces the committed buffer by a fresh empty one.  Tags 0..6 map to
\* the seven kinds with sizes 4, 4, 4, 4, 4, 4, 8.
C22_InvalidTagFatal ==
    [][/\ TagTable
       /\ \A tag \in InvalidTags :
            /\ (pc = "idle" /\ AsmRelocCall(tag)) =>
                   /\ pc' = "panicked"
                   /\ UNCHANGED <<relvars, labvars, ops, asmoffset, execbuf>>
            /\ (pc = "alter_f" /\ ModRelocCall(tag)) =>
                   /\ pc' = "panicked"
                   /\ UNCHANGED <<relvars, labvars, ops, asmoffset>>
                   /\ execbuf' = << >> /\ map_len' = InitMapLen
      ]_vars

\* a global reference with an unsupported tag made through the modifier
\* has panicked: the lists are empty and the committed word is gone
C22_Witness ==
    /\ pc = "panicked"
    /\ m_hist = <<Hist("goto", <<4>>), Hist("global_reloc", << >>)>>
    /\ asmoffset = 4 /\ ops = << >>
    /\ execbuf = << >>
    /\ global_relocs = << >> /\ dynamic_relocs = << >> /\ local_relocs = EmptyMap

=============================================================================
